---- MODULE Spec2Model ----
(***************************************************************************)
(* A model of the invocation core of minilambda: the type-keyed registry   *)
(* (registry/registry.go), the middleware chain (core middleware) and the  *)
(* invoker (invoker/invoker.go).                                           *)
(***************************************************************************)
EXTENDS Integers, Sequences, FiniteSets, TLC

(***************************************************************************)
(* Bounds of the model.                                                    *)
(***************************************************************************)
\* goroutines calling the package-level registry functions
NumProcs == 2
\* core.NewLambda calls (every RegisterLambda and every constructor call makes one)
MaxUnits == 2
\* Registry objects getRegistry may allocate
MaxRegs == 2
\* Chain objects NewChain and Use may allocate
MaxChains == 2
\* middlewares in a chain that is extended with Use
MaxUseLen == 2
\* middlewares in a chain that is executed
MaxLen == 3
\* channels WithConcurrency may make
MaxChans == 1
\* the largest concurrency limit
MaxConc == 1
\* the largest Retries option
MaxRetries == 1
\* Lambda objects NewLambda and WithOptions may make
MaxLambdas == 2
\* calls of Lambda.Invoke in one behaviour
MaxInvokes == 2
MaxClock == 3
MaxRequests == 2
MaxFailures == 2

(***************************************************************************)
(* Names and types.                                                        *)
(***************************************************************************)
Procs == 1..NumProcs
\* the caller that issues its calls one at a time
SeqProc == CHOOSE p \in Procs : \A q \in Procs : p <= q
Names == {"f", "g"}

\* Go types used as I and O.  "a/pkg.T" and "b/pkg.T" are two distinct named
\* types T declared in two packages that are both called pkg.
Types == {"a/pkg.T", "b/pkg.T", "int"}
TypePairs == {<<"a/pkg.T", "int">>, <<"b/pkg.T", "int">>, <<"int", "int">>}

\* reflect.Type.String(): a named type prints as <package name>.<type name>,
\* with the package's name and not its import path, so the string is not
\* unique among types.
TypeString(t) ==
    CASE t = "a/pkg.T" -> "pkg.T"
      [] t = "b/pkg.T" -> "pkg.T"
      [] OTHER -> t

\* a plausible slip: the key leaves out the output type
registryKey_InputOnly(tp) == TypeString(tp[1])

\* registryKey: inType.String() + "->" + outType.String()
registryKey(tp) == TypeString(tp[1]) \o "->" \o TypeString(tp[2])

Keys == {registryKey(tp) : tp \in TypePairs}

VARIABLES
    globalRegistries,   \* sync.Map: key -> Registry object (0: no entry)
    regs,               \* the Registry objects allocated so far, by identity
    nextUnit,           \* identity of the next Lambda core.NewLambda allocates
    call,               \* per goroutine: the registry call it is executing
    live                \* history: names registered through a type pair and
                        \* neither unregistered nor cleared since

registryVars == <<globalRegistries, regs, nextUnit, call, live>>

\* time.Now(): the logical time, which advances with every Lambda created
Now == nextUnit - 1

NoReg == 0
NoUnit == [id |-> 0, name |-> "", type |-> <<"", "">>]
NoRet == [err |-> "", found |-> FALSE, unit |-> NoUnit, list |-> <<>>]
IdleCall == [pc |-> "idle", op |-> "", tp |-> <<"", "">>, name |-> "",
             unit |-> NoUnit, reg |-> NoReg, ret |-> NoRet]

ErrNil == "nil"
ErrDup == "already registered"
ErrNoCtor == "constructor not found"
ErrPanic == "panic: interface conversion"

\* removal of a key from a Go map
Delete(m, k) == [x \in DOMAIN m \ {k} |-> m[x]]
\* insertion or overwrite, m[k] = v
Put(m, k, v) == [x \in DOMAIN m \cup {k} |-> IF x = k THEN v ELSE m[x]]
EmptyMap == [x \in {} |-> NoUnit]

\* the orders in which a range over a Go map may visit the keys of S
Orderings(S) ==
    {s \in [1..Cardinality(S) -> S] : \A i, j \in 1..Cardinality(S) : s[i] = s[j] => i = j}

(***************************************************************************)
(* core.Lambda, as far as the registry sees it.                            *)
(***************************************************************************)
\* NewLambda: a fresh Lambda object with the given name
NewLambda(name, tp, id) == [id |-> id, name |-> name, type |-> tp]

Lambda_GetName(l) == l.name

\* Lambda.GetMeta: name, the type strings, the component tag, time.Now()
Lambda_GetMeta(l, now) ==
    [Name |-> l.name,
     InputType |-> TypeString(l.type[1]),
     OutputType |-> TypeString(l.type[2]),
     ComponentType |-> "Lambda",
     RegisteredAt |-> now]

(***************************************************************************)
(* Registry methods: each runs under the registry's lock, so each is one   *)
(* step on the Registry object.                                            *)
(***************************************************************************)
\* the Registry getRegistry allocates: three empty maps
EmptyRegistry(tp) ==
    [type |-> tp, lambdas |-> EmptyMap, constructors |-> EmptyMap, meta |-> EmptyMap]

\* a plausible slip: no duplicate check, the new Lambda replaces the old one
Registry_Register_Overwrite(r, lambda, now) ==
    [reg |-> [r EXCEPT !.lambdas = Put(r.lambdas, Lambda_GetName(lambda), lambda),
                       !.meta = Put(r.meta, Lambda_GetName(lambda), Lambda_GetMeta(lambda, now))],
     err |-> ErrNil]

\* a plausible slip: the Lambda is stored under a fixed key instead of its name
Registry_Register_WrongKey(r, lambda, now) ==
    IF "f" \in DOMAIN r.lambdas
    THEN [reg |-> r, err |-> ErrDup]
    ELSE [reg |-> [r EXCEPT !.lambdas = Put(r.lambdas, "f", lambda),
                            !.meta = Put(r.meta, "f", Lambda_GetMeta(lambda, now))],
          err |-> ErrNil]

\* Registry.Register
Registry_Register(r, lambda, now) ==
    LET name == Lambda_GetName(lambda) IN
    IF name \in DOMAIN r.lambdas
    THEN [reg |-> r, err |-> ErrDup]
    ELSE [reg |-> [r EXCEPT !.lambdas = Put(r.lambdas, name, lambda),
                            !.meta = Put(r.meta, name, Lambda_GetMeta(lambda, now))],
          err |-> ErrNil]

\* Registry.RegisterWithConstructor; a constructor is modelled by the name of
\* the Lambda it builds
Registry_RegisterWithConstructor(r, name, constructor) ==
    [r EXCEPT !.constructors = Put(r.constructors, name, constructor)]

\* Registry.Get
Registry_Get(r, name) ==
    IF name \in DOMAIN r.lambdas
    THEN [unit |-> r.lambdas[name], found |-> TRUE]
    ELSE [unit |-> NoUnit, found |-> FALSE]

\* Registry.List: the registered names, then the constructor names that have no
\* Lambda yet, each group in map-iteration order
Registry_List(r) ==
    {a \o b : a \in Orderings(DOMAIN r.lambdas),
              b \in Orderings(DOMAIN r.constructors \ DOMAIN r.lambdas)}

\* Registry.Unregister
Registry_Unregister(r, name) ==
    IF name \in DOMAIN r.lambdas
    THEN [reg |-> [r EXCEPT !.lambdas = Delete(r.lambdas, name),
                            !.meta = Delete(r.meta, name)],
          ok |-> TRUE]
    ELSE IF name \in DOMAIN r.constructors
    THEN [reg |-> [r EXCEPT !.constructors = Delete(r.constructors, name)], ok |-> TRUE]
    ELSE [reg |-> r, ok |-> FALSE]

\* Registry.Clear
Registry_Clear(r) ==
    [r EXCEPT !.lambdas = EmptyMap, !.constructors = EmptyMap, !.meta = EmptyMap]

\* Registry.Count: len(r.lambdas) + len(r.constructors)
Registry_Count(r) == Cardinality(DOMAIN r.lambdas) + Cardinality(DOMAIN r.constructors)

(***************************************************************************)
(* The package-level functions.  Each starts with getRegistry, which is a  *)
(* Load on the sync.Map and, on a miss, a separate Store: two steps.       *)
(***************************************************************************)
InitRegistry ==
    /\ globalRegistries = [k \in Keys |-> NoReg]
    /\ regs = <<>>
    /\ nextUnit = 1
    /\ call = [p \in Procs |-> IdleCall]
    /\ live = [tp \in TypePairs |-> {}]

Enter(p, op, tp, name, unit) ==
    call' = [call EXCEPT ![p] = [pc |-> "getRegistry", op |-> op, tp |-> tp,
                                 name |-> name, unit |-> unit, reg |-> NoReg,
                                 ret |-> NoRet]]

\* RegisterLambda: core.NewLambda, then getRegistry
RegisterLambda(p, tp, name) ==
    /\ call[p].pc = "idle"
    /\ nextUnit <= MaxUnits
    /\ Enter(p, "RegisterLambda", tp, name, NewLambda(name, tp, nextUnit))
    /\ nextUnit' = nextUnit + 1
    /\ UNCHANGED <<globalRegistries, regs, live>>

\* RegisterLambdaWithConstructor; the constructor builds a Lambda named ctor
RegisterLambdaWithConstructor(p, tp, name, ctor) ==
    /\ call[p].pc = "idle"
    /\ Enter(p, "RegisterLambdaWithConstructor", tp, name, NewLambda(ctor, tp, 0))
    /\ UNCHANGED <<globalRegistries, regs, nextUnit, live>>

\* GetLambda, BuildLambda, ListLambdas, UnregisterLambda, and Clear on the
\* registry of a type pair
Enters(p, op, tp, name) ==
    /\ call[p].pc = "idle"
    /\ op = "BuildLambda" => nextUnit <= MaxUnits
    /\ Enter(p, op, tp, name, NoUnit)
    /\ UNCHANGED <<globalRegistries, regs, nextUnit, live>>

GetLambda(p, tp, name) == Enters(p, "GetLambda", tp, name)
BuildLambda(p, tp, name) == Enters(p, "BuildLambda", tp, name)
UnregisterLambda(p, tp, name) == Enters(p, "UnregisterLambda", tp, name)
ListLambdas(p, tp) == Enters(p, "ListLambdas", tp, "")
ClearRegistry(p, tp) == Enters(p, "Clear", tp, "")

\* getRegistry, first half: globalRegistries.Load(key), and on a hit the type
\* assertion reg.(*Registry[I, O]), which panics when the stored Registry was
\* made for another type pair
getRegistry_Load(p) ==
    /\ call[p].pc = "getRegistry"
    /\ LET reg == globalRegistries[registryKey(call[p].tp)] IN
       call' = IF reg = NoReg
               THEN [call EXCEPT ![p].pc = "getRegistry_Store"]
               ELSE IF regs[reg].type = call[p].tp
               THEN [call EXCEPT ![p].pc = "method", ![p].reg = reg]
               ELSE [call EXCEPT ![p].pc = "done", ![p].ret.err = ErrPanic]
    /\ UNCHANGED <<globalRegistries, regs, nextUnit, live>>

\* getRegistry, second half: a new empty Registry is stored under the key,
\* replacing whatever is there by now
getRegistry_Store(p) ==
    /\ call[p].pc = "getRegistry_Store"
    /\ Len(regs) < MaxRegs
    /\ regs' = Append(regs, EmptyRegistry(call[p].tp))
    /\ globalRegistries' = [globalRegistries EXCEPT ![registryKey(call[p].tp)] = Len(regs) + 1]
    /\ call' = [call EXCEPT ![p].pc = "method", ![p].reg = Len(regs) + 1]
    /\ UNCHANGED <<nextUnit, live>>

AtMethod(p, op) == call[p].pc = "method" /\ call[p].op = op

\* reg.Register(lambda)
Do_Register(p) ==
    /\ AtMethod(p, "RegisterLambda")
    /\ LET res == Registry_Register(regs[call[p].reg], call[p].unit, Now) IN
       /\ regs' = [regs EXCEPT ![call[p].reg] = res.reg]
       /\ call' = [call EXCEPT ![p].pc = "done", ![p].ret.err = res.err]
       /\ live' = IF res.err = ErrNil
                  THEN [live EXCEPT ![call[p].tp] = @ \cup {call[p].name}]
                  ELSE live
    /\ UNCHANGED <<globalRegistries, nextUnit>>

\* reg.RegisterWithConstructor(name, constructor)
Do_RegisterWithConstructor(p) ==
    /\ AtMethod(p, "RegisterLambdaWithConstructor")
    /\ regs' = [regs EXCEPT ![call[p].reg] =
                   Registry_RegisterWithConstructor(@, call[p].name, call[p].unit.name)]
    /\ call' = [call EXCEPT ![p].pc = "done"]
    /\ UNCHANGED <<globalRegistries, nextUnit, live>>

\* reg.Get(name)
Do_Get(p) ==
    /\ AtMethod(p, "GetLambda")
    /\ LET res == Registry_Get(regs[call[p].reg], call[p].name) IN
       call' = [call EXCEPT ![p].pc = "done", ![p].ret.found = res.found,
                            ![p].ret.unit = res.unit]
    /\ UNCHANGED <<globalRegistries, regs, nextUnit, live>>

\* reg.List()
Do_List(p) ==
    /\ AtMethod(p, "ListLambdas")
    /\ \E names \in Registry_List(regs[call[p].reg]) :
          call' = [call EXCEPT ![p].pc = "done", ![p].ret.list = names]
    /\ UNCHANGED <<globalRegistries, regs, nextUnit, live>>

\* reg.Unregister(name)
Do_Unregister(p) ==
    /\ AtMethod(p, "UnregisterLambda")
    /\ LET res == Registry_Unregister(regs[call[p].reg], call[p].name) IN
       /\ regs' = [regs EXCEPT ![call[p].reg] = res.reg]
       /\ call' = [call EXCEPT ![p].pc = "done", ![p].ret.found = res.ok]
    /\ live' = [live EXCEPT ![call[p].tp] = @ \ {call[p].name}]
    /\ UNCHANGED <<globalRegistries, nextUnit>>

\* reg.Clear()
Do_Clear(p) ==
    /\ AtMethod(p, "Clear")
    /\ regs' = [regs EXCEPT ![call[p].reg] = Registry_Clear(@)]
    /\ call' = [call EXCEPT ![p].pc = "done"]
    /\ live' = [live EXCEPT ![call[p].tp] = {}]
    /\ UNCHANGED <<globalRegistries, nextUnit>>

\* Registry.Build, first critical section: the constructor is read under RLock
Build_Read(p) ==
    /\ AtMethod(p, "BuildLambda")
    /\ LET r == regs[call[p].reg] IN
       IF call[p].name \in DOMAIN r.constructors
       THEN /\ nextUnit <= MaxUnits
            /\ call' = [call EXCEPT ![p].pc = "Build_Register",
                                    ![p].unit = NewLambda(r.constructors[call[p].name],
                                                          call[p].tp, nextUnit)]
            /\ nextUnit' = nextUnit + 1
       ELSE /\ call' = [call EXCEPT ![p].pc = "done", ![p].ret.err = ErrNoCtor]
            /\ UNCHANGED nextUnit
    /\ UNCHANGED <<globalRegistries, regs, live>>

\* Registry.Build, the rest: r.Register(lambda), whose error is dropped, and
\* return lambda, nil
Build_Register(p) ==
    /\ call[p].pc = "Build_Register"
    /\ LET res == Registry_Register(regs[call[p].reg], call[p].unit, Now) IN
       /\ regs' = [regs EXCEPT ![call[p].reg] = res.reg]
       /\ live' = IF res.err = ErrNil
                  THEN [live EXCEPT ![call[p].tp] = @ \cup {call[p].unit.name}]
                  ELSE live
    /\ call' = [call EXCEPT ![p].pc = "done", ![p].ret.err = ErrNil,
                            ![p].ret.unit = call[p].unit]
    /\ UNCHANGED <<globalRegistries, nextUnit>>

\* the call has returned to its caller
Return(p) ==
    /\ call[p].pc = "done"
    /\ call' = [call EXCEPT ![p] = IdleCall]
    /\ UNCHANGED <<globalRegistries, regs, nextUnit, live>>

RegistryStep(p) ==
    \/ getRegistry_Load(p)
    \/ getRegistry_Store(p)
    \/ Do_Register(p)
    \/ Do_RegisterWithConstructor(p)
    \/ Do_Get(p)
    \/ Do_List(p)
    \/ Do_Unregister(p)
    \/ Do_Clear(p)
    \/ Build_Read(p)
    \/ Build_Register(p)
    \/ Return(p)

RegistryCall(p) ==
    \/ \E tp \in TypePairs, name \in Names : RegisterLambda(p, tp, name)
    \/ \E tp \in TypePairs, name \in Names, ctor \in Names :
          RegisterLambdaWithConstructor(p, tp, name, ctor)
    \/ \E tp \in TypePairs, name \in Names : GetLambda(p, tp, name)
    \/ \E tp \in TypePairs, name \in Names : BuildLambda(p, tp, name)
    \/ \E tp \in TypePairs, name \in Names : UnregisterLambda(p, tp, name)
    \/ \E tp \in TypePairs : ListLambdas(p, tp)
    \/ \E tp \in TypePairs : ClearRegistry(p, tp)

(***************************************************************************)
(* The middleware chain (core.Chain): construction and Use.                *)
(***************************************************************************)
VARIABLES
    chains,     \* the Chain objects allocated so far, by identity
    lwms,       \* the LambdaWithMiddleware objects allocated so far
    cret        \* the last constructor or Use call: arguments and result

useVars == <<chains, lwms, cret>>

\* the values a chain is built from: Logger(name), ValidateInput(validator),
\* Retry(maxRetries)
Logger(name) == [kind |-> "Logger", name |-> name, maxRetries |-> 0]
ValidateInputMw == [kind |-> "ValidateInput", name |-> "", maxRetries |-> 0]
RetryMw(n) == [kind |-> "Retry", name |-> "", maxRetries |-> n]
Middlewares == {Logger("A"), Logger("B"), ValidateInputMw, RetryMw(1)}

\* the argument lists of at most n middlewares
MiddlewareLists(n) == UNION {[1..k -> Middlewares] : k \in 0..n}

\* the argument lists NewChain and Use are called with
UseLists == UNION {[1..k -> {Logger("A"), Logger("B")}] : k \in 0..MaxUseLen}

\* NewChain(final, middlewares...)
NewChainValue(final, middlewares) == [middlewares |-> middlewares, final |-> final]

\* a plausible slip: Use appends to the receiver's own list and returns the receiver
Chain_Use_InPlace(heap, c, middlewares) ==
    [heap |-> [heap EXCEPT ![c].middlewares = @ \o middlewares], chain |-> c]

\* Chain.Use: a new Chain whose list is a copy of the receiver's followed by
\* the added middlewares; heap is the set of Chain objects, c the receiver
Chain_Use(heap, c, middlewares) ==
    [heap |-> Append(heap, [middlewares |-> heap[c].middlewares \o middlewares,
                            final |-> heap[c].final]),
     chain |-> Len(heap) + 1]

NoCall == [op |-> "", recv |-> 0, args |-> <<>>, ret |-> 0]

IdleUse ==
    /\ chains = <<>>
    /\ lwms = <<>>
    /\ cret = NoCall

\* NewChain
NewChain(middlewares) ==
    /\ Len(chains) < MaxChains
    /\ chains' = Append(chains, NewChainValue("T", middlewares))
    /\ cret' = [op |-> "NewChain", recv |-> 0, args |-> middlewares, ret |-> Len(chains) + 1]
    /\ UNCHANGED lwms

\* c.Use(middlewares...)
Use(c, middlewares) ==
    /\ Len(chains) < MaxChains
    /\ Len(chains[c].middlewares) + Len(middlewares) <= MaxUseLen
    /\ LET r == Chain_Use(chains, c, middlewares) IN
       /\ chains' = r.heap
       /\ cret' = [op |-> "Chain.Use", recv |-> c, args |-> middlewares, ret |-> r.chain]
    /\ UNCHANGED lwms

\* NewLambdaWithMiddleware(name, handler, middlewares...): a chain and a fresh
\* LambdaMetrics record
NewLambdaWithMiddleware(name, middlewares) ==
    /\ Len(chains) < MaxChains
    /\ chains' = Append(chains, NewChainValue("T", middlewares))
    /\ lwms' = Append(lwms, [chain |-> Len(chains) + 1, name |-> name,
                             metrics |-> Len(lwms) + 1])
    /\ cret' = [op |-> "NewLambdaWithMiddleware", recv |-> 0, args |-> middlewares,
                ret |-> Len(lwms) + 1]

\* l.Use(middlewares...): the chain's Use, and a new LambdaWithMiddleware with
\* the receiver's name and metrics record
LambdaWithMiddleware_Use(l, middlewares) ==
    /\ Len(chains) < MaxChains
    /\ Len(chains[lwms[l].chain].middlewares) + Len(middlewares) <= MaxUseLen
    /\ LET r == Chain_Use(chains, lwms[l].chain, middlewares) IN
       /\ chains' = r.heap
       /\ lwms' = Append(lwms, [chain |-> r.chain, name |-> lwms[l].name,
                                metrics |-> lwms[l].metrics])
    /\ cret' = [op |-> "Lambda.Use", recv |-> l, args |-> middlewares, ret |-> Len(lwms) + 1]

(***************************************************************************)
(* The middleware chain: Execute.                                          *)
(***************************************************************************)
VARIABLES
    xchain,     \* the Chain Execute is called on
    xinput,     \* the input of the call
    ctxDone,    \* whether the context of the call is cancelled
    xpc,        \* idle, call (a handler is entered), ret (a handler has
                \* returned), backoff (Retry waits), done
    depth,      \* which handler of the built chain is entered
    frames,     \* the middlewares waiting for their next to return, outermost first
    trace,      \* what has run in this call, in order
    result,     \* (output, error) of the handler that returned last
    tcalls      \* how often the final function has run in this call

execVars == <<xchain, xinput, ctxDone, xpc, depth, frames, trace, result, tcalls>>

Inputs == {"good", "bad", "fail"}
Zero == ""
NoResult == [output |-> Zero, err |-> ""]
ErrCtx == "context canceled"

\* the final function of the model: it fails on the input "fail"
Final(input) ==
    IF input = "fail" THEN [output |-> Zero, err |-> "T failed"]
    ELSE [output |-> "T:" \o input, err |-> ErrNil]

\* inputs for which the final function fails on its first calls only:
\* once for "fail1", twice for "fail2", always for "failN"
FlakyInputs == {"fail1", "fail2", "failN"}
FailsBefore(input, n) ==
    CASE input = "fail1" -> n < 1
      [] input = "fail2" -> n < 2
      [] OTHER -> TRUE

\* the final function on its call number n + 1 of one Execute; its errors
\* for the flaky inputs carry the number of the call
FinalAt(input, n) ==
    IF input \in FlakyInputs
    THEN IF FailsBefore(input, n)
         THEN [output |-> Zero, err |-> "T failed " \o ToString(n + 1)]
         ELSE [output |-> "T:" \o input, err |-> ErrNil]
    ELSE Final(input)

\* the final function panics on the input "boom", with this value
FinalPanics(input) == input = "boom"
PanicValue(input) == input \o "!"

\* the validator of the model: it rejects the input "bad"
validator(input) == IF input = "bad" THEN "rejected" ELSE ErrNil

\* a plausible slip: the validator's error is ignored
ValidateInput_NoShortCircuit(input) == [callNext |-> TRUE, ret |-> NoResult]

\* ValidateInput: on a validator error return the zero output and the wrapped
\* error without calling next, else return next(ctx, input)
ValidateInput(input) ==
    IF validator(input) # ErrNil
    THEN [callNext |-> FALSE,
          ret |-> [output |-> Zero, err |-> "input validation failed: " \o validator(input)]]
    ELSE [callNext |-> TRUE, ret |-> NoResult]

\* Retry, after the loop: the last error wrapped with the retry count
RetryExhausted(maxRetries, lastErr) ==
    [output |-> Zero, err |-> "after " \o ToString(maxRetries) \o " retries: " \o lastErr]

Stage(mw, index) == [kind |-> mw.kind, name |-> mw.name, maxRetries |-> mw.maxRetries,
                     index |-> index]
FinalStage(c, index) == [kind |-> "final", name |-> c.final, maxRetries |-> 0, index |-> index]

\* a plausible slip: the chain is composed the other way round, so that the last
\* middleware is outermost
RECURSIVE buildChain_Reversed(_, _)
buildChain_Reversed(c, index) ==
    IF index >= Len(c.middlewares) THEN <<FinalStage(c, index)>>
    ELSE LET rest == buildChain_Reversed(c, index + 1) IN
         SubSeq(rest, 1, Len(rest) - 1) \o <<Stage(c.middlewares[index + 1], index)>>
            \o <<rest[Len(rest)]>>

\* buildChain(index): the handler that runs middleware index with
\* buildChain(index + 1) as its next, and the final function once index is
\* past the last middleware.  The handler is written as the list of what it
\* runs, outermost first; each element calls its successor as next.
RECURSIVE buildChain(_, _)
buildChain(c, index) ==
    IF index >= Len(c.middlewares) THEN <<FinalStage(c, index)>>
    ELSE <<Stage(c.middlewares[index + 1], index)>> \o buildChain(c, index + 1)

Handler == buildChain(xchain, 0)
Event(ev, stage) == [ev |-> ev, index |-> stage.index, name |-> stage.name]
Frame(pos) == [pos |-> pos, attempt |-> 0, lastErr |-> ""]
Top == frames[Len(frames)]
Pop == SubSeq(frames, 1, Len(frames) - 1)

IdleExec ==
    /\ xchain = NewChainValue("T", <<>>)
    /\ xinput = "" /\ ctxDone = FALSE /\ xpc = "idle" /\ depth = 0
    /\ frames = <<>> /\ trace = <<>> /\ result = NoResult /\ tcalls = 0

\* a chain has been built with NewChain
InitExec ==
    /\ xchain \in {NewChainValue("T", mws) : mws \in MiddlewareLists(MaxLen)}
    /\ xinput = "" /\ ctxDone = FALSE /\ xpc = "idle" /\ depth = 0
    /\ frames = <<>> /\ trace = <<>> /\ result = NoResult /\ tcalls = 0

\* Chain.Execute: handler := c.buildChain(0); handler(ctx, input)
Chain_Execute(input, cancelled) ==
    /\ xpc \in {"idle", "done"}
    /\ xinput' = input /\ ctxDone' = cancelled
    /\ xpc' = "call" /\ depth' = 1
    /\ frames' = <<>> /\ trace' = <<>> /\ result' = NoResult /\ tcalls' = 0
    /\ UNCHANGED xchain

\* the context of the running call is cancelled
Cancel ==
    /\ xpc \in {"call", "ret", "backoff"}
    /\ ~ctxDone
    /\ ctxDone' = TRUE
    /\ UNCHANGED <<xchain, xinput, xpc, depth, frames, trace, result, tcalls>>

Entering(kind) == xpc = "call" /\ Handler[depth].kind = kind
Returning(kind) == xpc = "ret" /\ frames # <<>> /\ Handler[Top.pos].kind = kind

\* the handler calls next(ctx, input)
CallNext(ev) ==
    /\ frames' = Append(frames, Frame(depth))
    /\ trace' = trace \o ev \o <<Event("next", Handler[depth])>>
    /\ depth' = depth + 1
    /\ xpc' = "call"
    /\ UNCHANGED <<result, tcalls>>

\* the handler on top of the stack returns res to its caller
ReturnFrom(res) ==
    /\ frames' = Pop
    /\ trace' = Append(trace, Event("exit", Handler[Top.pos]))
    /\ result' = res
    /\ xpc' = "ret"
    /\ UNCHANGED <<depth, tcalls>>

\* the innermost handler: c.final(ctx, input)
Enter_final ==
    /\ Entering("final")
    /\ trace' = Append(trace, Event("T", Handler[depth]))
    /\ tcalls' = tcalls + 1
    /\ IF FinalPanics(xinput)
       THEN xpc' = "panic" /\ UNCHANGED result
       ELSE xpc' = "ret" /\ result' = FinalAt(xinput, tcalls)
    /\ UNCHANGED <<xchain, xinput, ctxDone, depth, frames>>

\* Logger, up to its call of next
Enter_Logger ==
    /\ Entering("Logger")
    /\ CallNext(<<Event("enter", Handler[depth])>>)
    /\ UNCHANGED <<xchain, xinput, ctxDone>>

\* Logger, after next has returned: output and error are passed on
Return_Logger ==
    /\ Returning("Logger")
    /\ ReturnFrom(result)
    /\ UNCHANGED <<xchain, xinput, ctxDone>>

\* ValidateInput
Enter_ValidateInput ==
    /\ Entering("ValidateInput")
    /\ LET v == ValidateInput(xinput) IN
       IF v.callNext
       THEN CallNext(<<Event("enter", Handler[depth])>>)
       ELSE /\ trace' = trace \o <<Event("enter", Handler[depth]), Event("exit", Handler[depth])>>
            /\ result' = v.ret
            /\ xpc' = "ret"
            /\ UNCHANGED <<depth, frames, tcalls>>
    /\ UNCHANGED <<xchain, xinput, ctxDone>>

\* ValidateInput: return next(ctx, input)
Return_ValidateInput ==
    /\ Returning("ValidateInput")
    /\ ReturnFrom(result)
    /\ UNCHANGED <<xchain, xinput, ctxDone>>

\* Retry, attempt 0: next is called without a wait
Enter_Retry ==
    /\ Entering("Retry")
    /\ CallNext(<<Event("enter", Handler[depth])>>)
    /\ UNCHANGED <<xchain, xinput, ctxDone>>

\* a plausible slip: one attempt too many
RetryGoesOn_OneMore(attempt, maxRetries) == attempt <= maxRetries

\* Retry, the loop condition attempt <= maxRetries after attempt++
RetryGoesOn(attempt, maxRetries) == attempt + 1 <= maxRetries

\* Retry, after an attempt: success is returned; a failure with the context
\* done returns ctx.Err(); otherwise the loop goes on to the next attempt, or
\* ends with the wrapped last error
Return_Retry ==
    /\ Returning("Retry")
    /\ IF result.err = ErrNil THEN ReturnFrom(result)
       ELSE IF ctxDone THEN ReturnFrom([output |-> Zero, err |-> ErrCtx])
       ELSE IF RetryGoesOn(Top.attempt, Handler[Top.pos].maxRetries)
       THEN /\ frames' = [frames EXCEPT ![Len(frames)].attempt = @ + 1,
                                        ![Len(frames)].lastErr = result.err]
            /\ xpc' = "backoff"
            /\ UNCHANGED <<depth, trace, result, tcalls>>
       ELSE ReturnFrom(RetryExhausted(Handler[Top.pos].maxRetries, result.err))
    /\ UNCHANGED <<xchain, xinput, ctxDone>>

\* Retry, the wait before an attempt: the timer fires and next is called
\* again.  The select waits on a timer made then and on ctx.Done(); the
\* first of the two events ends the wait, so the timer ends it only while
\* the context is not done.
Retry_Backoff_Timer ==
    /\ xpc = "backoff"
    /\ ~ctxDone
    /\ trace' = Append(trace, Event("next", Handler[Top.pos]))
    /\ depth' = Top.pos + 1
    /\ xpc' = "call"
    /\ UNCHANGED <<xchain, xinput, ctxDone, frames, result, tcalls>>

\* Retry, the wait before an attempt: the context is done first
Retry_Backoff_Done ==
    /\ xpc = "backoff"
    /\ ctxDone
    /\ ReturnFrom([output |-> Zero, err |-> ErrCtx])
    /\ UNCHANGED <<xchain, xinput, ctxDone>>

\* the outermost handler has returned: Execute returns its output and error
Execute_Return ==
    /\ xpc = "ret" /\ frames = <<>>
    /\ xpc' = "done"
    /\ UNCHANGED <<xchain, xinput, ctxDone, depth, frames, trace, result, tcalls>>

(***************************************************************************)
(* The middlewares with state: RateLimit, CacheOutput, CircuitBreaker; and *)
(* Recovery.                                                               *)
(***************************************************************************)
VARIABLES
    clock,      \* time.Now(), in units of the model
    limiter,    \* the RateLimiter given to RateLimit
    admitted,   \* history: the times of the calls that RateLimit let through
    cache,      \* the map behind cacheGetter and cacheSetter
    breaker,    \* the CircuitBreaker
    worker      \* the goroutine that Timeout starts for next

mwVars == <<clock, limiter, admitted, cache, breaker, worker>>

\* the parameters of the middlewares in the demonstrations, in units of the model
RetryCounts == {0, 1, 3}
Windows == {1, 2}
ResetTimeout == 1
\* make(chan struct{...}, 1) in Timeout
ResultChanCap == 1

RateLimitMw == [kind |-> "RateLimit", name |-> "", maxRetries |-> 0]
CacheOutputMw == [kind |-> "CacheOutput", name |-> "", maxRetries |-> 0]
CircuitBreakerMw == [kind |-> "CircuitBreaker", name |-> "", maxRetries |-> 0]
RecoveryMw == [kind |-> "Recovery", name |-> "", maxRetries |-> 0]
TimeoutMw == [kind |-> "Timeout", name |-> "", maxRetries |-> 0]

ErrRateLimit == "rate limit exceeded"
ErrOpen(input) == "circuit breaker is OPEN for input: " \o input
ErrPanicRecovered(v) == "panic recovered: " \o v
ErrTimeout == "timeout after d"

NewRateLimiter(maxRequests, window) ==
    [maxRequests |-> maxRequests, window |-> window, requests |-> <<>>]
NewCircuitBreaker(maxFailures, resetTimeout) ==
    [maxFailures |-> maxFailures, resetTimeout |-> resetTimeout, lastFailure |-> 0,
     state |-> "Closed", failures |-> [x \in {} |-> 0]]
EmptyCache == [x \in {} |-> Zero]
IdleWorker == [pc |-> "idle", res |-> NoResult, chan |-> <<>>, done |-> FALSE,
               woken |-> "", late |-> FALSE]

IdleMw ==
    /\ clock = 0
    /\ limiter = NewRateLimiter(1, 1)
    /\ admitted = <<>>
    /\ cache = EmptyCache
    /\ breaker = NewCircuitBreaker(1, 1)
    /\ worker = IdleWorker

\* time passes
Tick ==
    /\ clock < MaxClock
    /\ clock' = clock + 1
    /\ UNCHANGED <<limiter, admitted, cache, breaker, worker>>

\* a handler returns res without having called next
ReturnAtOnce(res) ==
    /\ trace' = trace \o <<Event("enter", Handler[depth]), Event("exit", Handler[depth])>>
    /\ result' = res
    /\ xpc' = "ret"
    /\ UNCHANGED <<depth, frames, tcalls>>

\* a plausible slip: the requests that are out of the window are kept
RateLimiter_Allow_NoExpiry(rl, now) ==
    IF Len(rl.requests) >= rl.maxRequests
    THEN [ok |-> FALSE, rl |-> rl]
    ELSE [ok |-> TRUE, rl |-> [rl EXCEPT !.requests = Append(@, now)]]

\* RateLimiter.Allow: the requests of the last window are kept; with
\* maxRequests of them the call is refused, else it is recorded
RateLimiter_Allow(rl, now) ==
    LET valid == SelectSeq(rl.requests, LAMBDA t : now - t < rl.window) IN
    IF Len(valid) >= rl.maxRequests
    THEN [ok |-> FALSE, rl |-> [rl EXCEPT !.requests = valid]]
    ELSE [ok |-> TRUE, rl |-> [rl EXCEPT !.requests = Append(valid, now)]]

\* RateLimit: a refused call returns the zero output and an error, an
\* allowed one returns next(ctx, input)
Enter_RateLimit ==
    /\ Entering("RateLimit")
    /\ LET a == RateLimiter_Allow(limiter, clock) IN
       /\ limiter' = a.rl
       /\ IF a.ok
          THEN /\ CallNext(<<Event("enter", Handler[depth])>>)
               /\ admitted' = Append(admitted, clock)
          ELSE /\ ReturnAtOnce([output |-> Zero, err |-> ErrRateLimit])
               /\ UNCHANGED admitted
    /\ UNCHANGED <<xchain, xinput, ctxDone, clock, cache, breaker, worker>>

Return_RateLimit ==
    /\ Returning("RateLimit")
    /\ ReturnFrom(result)
    /\ UNCHANGED <<xchain, xinput, ctxDone, mwVars>>

\* a plausible slip: the output is stored whatever the error
CacheOutput_Store_Always(c, input, res) ==
    [x \in DOMAIN c \cup {input} |-> IF x = input THEN res.output ELSE c[x]]

\* CacheOutput after next: cacheSetter(input, output) if next returned no error
CacheOutput_Store(c, input, res) ==
    IF res.err # ErrNil THEN c
    ELSE [x \in DOMAIN c \cup {input} |-> IF x = input THEN res.output ELSE c[x]]

\* CacheOutput: a cached value is returned at once, else next is called
Enter_CacheOutput ==
    /\ Entering("CacheOutput")
    /\ IF xinput \in DOMAIN cache
       THEN ReturnAtOnce([output |-> cache[xinput], err |-> ErrNil])
       ELSE CallNext(<<Event("enter", Handler[depth])>>)
    /\ UNCHANGED <<xchain, xinput, ctxDone, mwVars>>

Return_CacheOutput ==
    /\ Returning("CacheOutput")
    /\ cache' = CacheOutput_Store(cache, xinput, result)
    /\ ReturnFrom(result)
    /\ UNCHANGED <<xchain, xinput, ctxDone, clock, limiter, admitted, breaker, worker>>

\* CircuitBreaker.Middleware before next: an open breaker becomes half-open
\* when more than resetTimeout has passed since the last failure, and
\* refuses the call otherwise
CircuitBreaker_Admit(cb, now) ==
    IF cb.state = "Open"
    THEN IF now - cb.lastFailure > cb.resetTimeout
         THEN [ok |-> TRUE, cb |-> [cb EXCEPT !.state = "HalfOpen"]]
         ELSE [ok |-> FALSE, cb |-> cb]
    ELSE [ok |-> TRUE, cb |-> cb]

Failures(cb, input) == IF input \in DOMAIN cb.failures THEN cb.failures[input] ELSE 0
SetFailures(cb, input, n) ==
    [x \in DOMAIN cb.failures \cup {input} |-> IF x = input THEN n ELSE cb.failures[x]]

\* CircuitBreaker.Middleware after next: a failure is counted for its input
\* and opens the breaker when that count reaches maxFailures; a success
\* closes a half-open breaker and resets the count of its input
CircuitBreaker_Record(cb, input, err, now) ==
    IF err # ErrNil
    THEN [cb EXCEPT !.failures = SetFailures(cb, input, Failures(cb, input) + 1),
                    !.lastFailure = now,
                    !.state = IF Failures(cb, input) + 1 >= cb.maxFailures
                              THEN "Open" ELSE @]
    ELSE [cb EXCEPT !.failures = SetFailures(cb, input, 0),
                    !.state = IF @ = "HalfOpen" THEN "Closed" ELSE @]

Enter_CircuitBreaker ==
    /\ Entering("CircuitBreaker")
    /\ LET a == CircuitBreaker_Admit(breaker, clock) IN
       /\ breaker' = a.cb
       /\ IF a.ok
          THEN CallNext(<<Event("enter", Handler[depth])>>)
          ELSE ReturnAtOnce([output |-> Zero, err |-> ErrOpen(xinput)])
    /\ UNCHANGED <<xchain, xinput, ctxDone, clock, limiter, admitted, cache, worker>>

Return_CircuitBreaker ==
    /\ Returning("CircuitBreaker")
    /\ breaker' = CircuitBreaker_Record(breaker, xinput, result.err, clock)
    /\ ReturnFrom(result)
    /\ UNCHANGED <<xchain, xinput, ctxDone, clock, limiter, admitted, cache, worker>>

\* Recovery: return next(ctx, input), with the recover deferred
Enter_Recovery ==
    /\ Entering("Recovery")
    /\ CallNext(<<Event("enter", Handler[depth])>>)
    /\ UNCHANGED <<xchain, xinput, ctxDone, mwVars>>

Return_Recovery ==
    /\ Returning("Recovery")
    /\ ReturnFrom(result)
    /\ UNCHANGED <<xchain, xinput, ctxDone, mwVars>>

Panicking(kinds) == xpc = "panic" /\ frames # <<>> /\ Handler[Top.pos].kind \in kinds

\* a panic passes a handler that does not recover
Panic_Unwind ==
    /\ Panicking({"Logger", "ValidateInput", "Retry", "RateLimit", "CacheOutput",
                  "CircuitBreaker"})
    /\ frames' = Pop
    /\ UNCHANGED <<xchain, xinput, ctxDone, xpc, depth, trace, result, tcalls, mwVars>>

\* a plausible slip: the panic goes on after it was logged
Recovery_Recover_Reraises ==
    /\ Panicking({"Recovery"})
    /\ frames' = Pop
    /\ UNCHANGED <<xchain, xinput, ctxDone, xpc, depth, trace, result, tcalls, mwVars>>

\* Recovery's deferred function: recover() gives the panic value, err is
\* set to an error made of it, and the handler returns normally with the
\* zero output
Recovery_Recover ==
    /\ Panicking({"Recovery"})
    /\ ReturnFrom([output |-> Zero, err |-> ErrPanicRecovered(PanicValue(xinput))])
    /\ UNCHANGED <<xchain, xinput, ctxDone, mwVars>>

\* the panic leaves Execute
Panic_Crash ==
    /\ xpc = "panic" /\ frames = <<>>
    /\ xpc' = "crashed"
    /\ UNCHANGED <<xchain, xinput, ctxDone, depth, frames, trace, result, tcalls, mwVars>>

(***************************************************************************)
(* Timeout: next runs in a goroutine of its own, here the final function.  *)
(* worker.done is the Done channel of the context made by WithTimeout,     *)
(* worker.chan the result channel of capacity 1.                           *)
(***************************************************************************)
WorkerActive == worker.pc \in {"running", "select", "panic"}

\* Timeout up to its select: the context with the deadline, the channel and
\* the goroutine
Enter_Timeout ==
    /\ Entering("Timeout")
    /\ worker' = [IdleWorker EXCEPT !.pc = "running", !.done = ctxDone]
    /\ trace' = Append(trace, Event("enter", Handler[depth]))
    /\ xpc' = "select"
    /\ UNCHANGED <<xchain, xinput, ctxDone, depth, frames, result, tcalls>>
    /\ UNCHANGED <<clock, limiter, admitted, cache, breaker>>

\* the deadline passes, or the context of the caller is cancelled: a select
\* parked on ctx.Done() is woken with that case
Timeout_Deadline ==
    /\ xpc \in {"select", "parked"}
    /\ ~worker.done
    /\ worker' = [worker EXCEPT !.done = TRUE,
                                !.woken = IF xpc = "parked" /\ @ = "" THEN "done" ELSE @]
    /\ UNCHANGED <<execVars, clock, limiter, admitted, cache, breaker>>

\* the goroutine: next(ctx, input) returns, or panics; late records that
\* Timeout had returned by then
Worker_Next ==
    /\ worker.pc = "running"
    /\ worker' = IF FinalPanics(xinput)
                 THEN [worker EXCEPT !.pc = "panic", !.late = xpc \in {"ret", "done"}]
                 ELSE [worker EXCEPT !.pc = "select", !.res = FinalAt(xinput, 0),
                                     !.late = xpc \in {"ret", "done"}]
    /\ trace' = Append(trace, Event("T", Handler[Len(Handler)]))
    /\ tcalls' = tcalls + 1
    /\ UNCHANGED <<xchain, xinput, ctxDone, xpc, depth, frames, result>>
    /\ UNCHANGED <<clock, limiter, admitted, cache, breaker>>

\* the panic unwinds the goroutine, whose function defers nothing that
\* recovers: the program ends
Worker_Panic ==
    /\ worker.pc = "panic"
    /\ worker' = [worker EXCEPT !.pc = "crashed"]
    /\ xpc' = "crashed"
    /\ UNCHANGED <<xchain, xinput, ctxDone, depth, frames, trace, result, tcalls>>
    /\ UNCHANGED <<clock, limiter, admitted, cache, breaker>>

\* a plausible slip: a plain send on a channel without buffer, which waits
\* for Timeout to receive
Worker_Select_Unbuffered ==
    /\ worker.pc = "select"
    /\ xpc = "parked" /\ worker.woken = ""
    /\ worker' = [worker EXCEPT !.pc = "sent", !.chan = <<worker.res>>, !.woken = "recv"]
    /\ UNCHANGED <<execVars, clock, limiter, admitted, cache, breaker>>

\* the goroutine's select: the result is sent if the buffer of the channel
\* has room, or dropped if the context is done; either if both can be done
Worker_Select ==
    /\ worker.pc = "select"
    /\ \/ /\ Len(worker.chan) < ResultChanCap
          /\ worker' = [worker EXCEPT !.pc = "sent", !.chan = Append(@, worker.res),
                                      !.woken = IF xpc = "parked" /\ @ = "" THEN "recv" ELSE @]
       \/ /\ worker.done
          /\ worker' = [worker EXCEPT !.pc = "dropped"]
    /\ UNCHANGED <<execVars, clock, limiter, admitted, cache, breaker>>

\* a plausible slip: the error of next is dropped
Timeout_Received_NoError(res) == [output |-> res.output, err |-> ErrNil]

\* case res := <-resultChan: return res.output, res.err
Timeout_Received(res) == res

\* case <-ctx.Done(): return zero, fmt.Errorf("timeout after %v", timeout)
Timeout_Expired == [output |-> Zero, err |-> ErrTimeout]

\* Timeout returns; the deferred cancel() ends the context
Timeout_Return(case) ==
    /\ result' = IF case = "recv" THEN Timeout_Received(worker.chan[1]) ELSE Timeout_Expired
    /\ worker' = [worker EXCEPT !.done = TRUE, !.woken = "",
                                !.chan = IF case = "recv" THEN <<>> ELSE @]
    /\ trace' = Append(trace, Event("exit", Handler[depth]))
    /\ xpc' = "ret"
    /\ UNCHANGED <<xchain, xinput, ctxDone, depth, frames, tcalls>>
    /\ UNCHANGED <<clock, limiter, admitted, cache, breaker>>

\* Timeout's select, on entry: a case that is ready is taken, either one if
\* both are; if none is ready the goroutine parks on both channels
Timeout_Select ==
    /\ xpc = "select"
    /\ \/ worker.chan # <<>> /\ Timeout_Return("recv")
       \/ worker.done /\ Timeout_Return("done")
       \/ /\ worker.chan = <<>> /\ ~worker.done
          /\ xpc' = "parked"
          /\ UNCHANGED <<xchain, xinput, ctxDone, depth, frames, trace, result, tcalls, mwVars>>

\* the parked select resumes with the case that woke it
Timeout_Wake ==
    /\ xpc = "parked" /\ worker.woken # ""
    /\ Timeout_Return(worker.woken)

(***************************************************************************)
(* core.Lambda: options, statistics and Invoke.                            *)
(***************************************************************************)
VARIABLES
    lambdas,    \* the Lambda objects, by identity: name, options, metrics record
    metrics,    \* the LambdaMetrics records, by identity
    linv,       \* per goroutine, its call of Lambda.Invoke
    completed,  \* per metrics record, the calls made on metrics-enabled
                \* Lambdas that have returned, and how many returned an error
    ninvokes,   \* the calls of Lambda.Invoke made so far
    origin      \* per Lambda, the Lambda it was copied from with WithOptions,
                \* or NoLambda if NewLambda made it

unitVars == <<lambdas, metrics, linv, completed, ninvokes, origin>>

\* DefaultOptions; the timeout is in seconds
DefaultOptions ==
    [Timeout |-> 30, EnableMetrics |-> TRUE, Concurrency |-> 10, Retries |-> 0,
     EnableCallback |-> FALSE, ComponentType |-> "Lambda"]

\* the LambdaOption functions of the model
WithEnableMetrics(enable) == [field |-> "EnableMetrics", value |-> enable]
WithRetries(retries) == [field |-> "Retries", value |-> retries]
Options == {WithEnableMetrics(FALSE)} \cup {WithRetries(r) : r \in 0..MaxRetries}
OptionLists == {<<>>} \cup {<<o>> : o \in Options}

\* for _, opt := range opts { opt(options) }
RECURSIVE ApplyOptions(_, _)
ApplyOptions(options, opts) ==
    IF opts = <<>> THEN options
    ELSE ApplyOptions([options EXCEPT ![Head(opts).field] = Head(opts).value], Tail(opts))

\* &LambdaMetrics{}
ZeroMetrics ==
    [TotalInvocations |-> 0, SuccessInvocations |-> 0, ErrorInvocations |-> 0,
     TotalDuration |-> 0, AverageDuration |-> 0]

\* a plausible slip: an error is counted as a success
updateMetrics_ErrorAsSuccess(m, duration, err) ==
    [m EXCEPT !.TotalInvocations = @ + 1,
              !.TotalDuration = @ + duration,
              !.AverageDuration = (m.TotalDuration + duration) \div (m.TotalInvocations + 1),
              !.SuccessInvocations = @ + 1]

\* Lambda.updateMetrics, under the lock of the record
updateMetrics(m, duration, err) ==
    [m EXCEPT !.TotalInvocations = @ + 1,
              !.TotalDuration = @ + duration,
              !.AverageDuration = (m.TotalDuration + duration) \div (m.TotalInvocations + 1),
              !.ErrorInvocations = IF err # ErrNil THEN @ + 1 ELSE @,
              !.SuccessInvocations = IF err = ErrNil THEN @ + 1 ELSE @]

\* the Lambda NewLambda returns when the metrics record m is the fresh one
LambdaObject(name, opts, m) ==
    [name |-> name, options |-> ApplyOptions(DefaultOptions, opts), metrics |-> m]

\* a plausible slip: the copy gets a metrics record of its own
Lambda_WithOptions_OwnMetrics(ls, ms, l, opts) ==
    [lambdas |-> Append(ls, [name |-> ls[l].name,
                             options |-> ApplyOptions(ls[l].options, opts),
                             metrics |-> Len(ms) + 1]),
     metrics |-> Append(ms, ZeroMetrics)]

\* Lambda.WithOptions: a new Lambda with a copy of the options, changed by
\* opts, and the receiver's metrics record
Lambda_WithOptions(ls, ms, l, opts) ==
    [lambdas |-> Append(ls, [name |-> ls[l].name,
                             options |-> ApplyOptions(ls[l].options, opts),
                             metrics |-> ls[l].metrics]),
     metrics |-> ms]

\* the inputs and the durations of the calls
UnitInputs == {1}
Durations == {1, 2}
\* the duration of a call made through the Invoker
UnitDuration == CHOOSE d \in Durations : \A e \in Durations : d <= e

\* the function of the Lambda doubles its input
Fn(input) == 2 * input
ZeroOutput == 0
\* the error the function returns from its n-th call within one Invoke
ErrAttempt(n) == "function error " \o ToString(n)

NoLambda == 0
\* the nil *LambdaResult
NilResult == [Nil |-> TRUE]
\* a LambdaResult; Timestamp is whether the field was set
LambdaResult(output, err, duration, stamped) ==
    [Output |-> output, Error |-> err, Duration |-> duration, Timestamp |-> stamped]

\* pc: idle, attempt (line 539 is next), backoff (parked in the select of
\* line 532), finish (invokeWithRetry has returned), done
\* calls: how often the function has been called; cancelled: whether the
\* context was done when Invoke was called
IdleLinv ==
    [pc |-> "idle", l |-> NoLambda, input |-> 0, ctxDone |-> FALSE, attempt |-> 0,
     calls |-> 0, succeeded |-> FALSE, lastErr |-> ErrNil, output |-> ZeroOutput,
     err |-> ErrNil, result |-> NilResult, cancelled |-> FALSE]

IdleUnit ==
    /\ lambdas = <<>>
    /\ metrics = <<>>
    /\ linv = [p \in Procs |-> IdleLinv]
    /\ completed = <<>>
    /\ ninvokes = 0
    /\ origin = <<>>

\* a Lambda has been made with NewLambda(name, fn, opts...)
InitUnit ==
    /\ \E opts \in OptionLists : lambdas = <<LambdaObject("f", opts, 1)>>
    /\ metrics = <<ZeroMetrics>>
    /\ linv = [p \in Procs |-> IdleLinv]
    /\ completed = <<[n |-> 0, k |-> 0]>>
    /\ ninvokes = 0
    /\ origin = <<NoLambda>>

\* NewLambda
Unit_NewLambda(name, opts) ==
    /\ Len(lambdas) < MaxLambdas
    /\ lambdas' = Append(lambdas, LambdaObject(name, opts, Len(metrics) + 1))
    /\ metrics' = Append(metrics, ZeroMetrics)
    /\ completed' = Append(completed, [n |-> 0, k |-> 0])
    /\ origin' = Append(origin, NoLambda)
    /\ UNCHANGED <<linv, ninvokes>>

\* l.WithOptions(opts...)
Unit_WithOptions(l, opts) ==
    /\ Len(lambdas) < MaxLambdas
    /\ LET r == Lambda_WithOptions(lambdas, metrics, l, opts) IN
       /\ lambdas' = r.lambdas
       /\ metrics' = r.metrics
       /\ completed' = IF Len(r.metrics) > Len(metrics)
                       THEN Append(completed, [n |-> 0, k |-> 0]) ELSE completed
    /\ origin' = Append(origin, l)
    /\ UNCHANGED <<linv, ninvokes>>

\* l.GetMetrics(): a copy of the record, taken under its read lock
Lambda_GetMetrics(l) == metrics[lambdas[l].metrics]

\* l.GetOptions(): a copy of the options
Lambda_GetOptions(l) == lambdas[l].options

\* l.Invoke(ctx, input), up to the first attempt; the context, or the one
\* derived from it with the timeout of the options, may be done already
Lambda_Invoke(p, l, input, cancelled) ==
    /\ linv[p].pc \in {"idle", "done"}
    /\ ninvokes < MaxInvokes
    /\ ninvokes' = ninvokes + 1
    /\ linv' = [linv EXCEPT ![p] = [IdleLinv EXCEPT !.pc = IF lambdas[l].options.Retries >= 0
                                                             THEN "attempt" ELSE "finish",
                                                     !.l = l, !.input = input,
                                                     !.ctxDone = cancelled,
                                                     !.cancelled = cancelled]]
    /\ UNCHANGED <<lambdas, metrics, completed, origin>>

\* the context of the call is cancelled, or its timeout expires
Lambda_CtxDone(p) ==
    /\ linv[p].pc \in {"attempt", "backoff"}
    /\ ~linv[p].ctxDone
    /\ linv' = [linv EXCEPT ![p].ctxDone = TRUE]
    /\ UNCHANGED <<lambdas, metrics, completed, ninvokes, origin>>

\* a plausible slip: the loop does not look at the context after a failure
AfterFailure_IgnoresCtx(c, retries, err) ==
    IF c.attempt + 1 <= retries
    THEN [c EXCEPT !.lastErr = err, !.attempt = @ + 1, !.pc = "backoff"]
    ELSE [c EXCEPT !.lastErr = err, !.attempt = @ + 1, !.pc = "finish", !.err = err]

\* a plausible slip: the loop runs to attempt < Retries
AfterFailure_OneAttemptLess(c, retries, err) ==
    IF c.ctxDone THEN [c EXCEPT !.lastErr = err, !.pc = "finish", !.err = ErrCtx]
    ELSE IF c.attempt + 1 < retries
    THEN [c EXCEPT !.lastErr = err, !.attempt = @ + 1, !.pc = "backoff"]
    ELSE [c EXCEPT !.lastErr = err, !.attempt = @ + 1, !.pc = "finish", !.err = err]

\* lines 544-552: lastErr = err; with the context done return its error;
\* else go on to the next attempt, or return lastErr after the last one
AfterFailure(c, retries, err) ==
    IF c.ctxDone THEN [c EXCEPT !.lastErr = err, !.pc = "finish", !.err = ErrCtx]
    ELSE IF c.attempt + 1 <= retries
    THEN [c EXCEPT !.lastErr = err, !.attempt = @ + 1, !.pc = "backoff"]
    ELSE [c EXCEPT !.lastErr = err, !.attempt = @ + 1, !.pc = "finish", !.err = err]

\* lines 539-549: one call of the function and what the loop does with its
\* result
Lambda_Attempt(p, ok) ==
    /\ linv[p].pc = "attempt"
    /\ LET c == [linv[p] EXCEPT !.calls = @ + 1] IN
       linv' = [linv EXCEPT ![p] =
                  IF ok
                  THEN [c EXCEPT !.pc = "finish", !.output = Fn(c.input), !.err = ErrNil,
                                 !.succeeded = TRUE]
                  ELSE AfterFailure(c, lambdas[c.l].options.Retries, ErrAttempt(c.calls))]
    /\ UNCHANGED <<lambdas, metrics, completed, ninvokes, origin>>

\* lines 532-536, the timer fires while the context is live
Lambda_Backoff_Timer(p) ==
    /\ linv[p].pc = "backoff"
    /\ ~linv[p].ctxDone
    /\ linv' = [linv EXCEPT ![p].pc = "attempt"]
    /\ UNCHANGED <<lambdas, metrics, completed, ninvokes, origin>>

\* lines 532-534, the context is done first: return zero, ctx.Err()
Lambda_Backoff_Done(p) ==
    /\ linv[p].pc = "backoff"
    /\ linv[p].ctxDone
    /\ linv' = [linv EXCEPT ![p] = [@ EXCEPT !.pc = "finish", !.err = ErrCtx]]
    /\ UNCHANGED <<lambdas, metrics, completed, ninvokes, origin>>

\* a plausible slip: a failed call returns the error without a result
Lambda_Result_NilOnError(c, duration) ==
    IF c.err # ErrNil THEN NilResult ELSE LambdaResult(c.output, c.err, duration, TRUE)

\* lines 497-500 and 512-514: the result of the call
Lambda_Result(c, duration) == LambdaResult(c.output, c.err, duration, TRUE)

\* lines 512-521: the result is filled in, the statistics are updated if the
\* options enable them, and Invoke returns (result, err)
Lambda_Finish(p, duration) ==
    /\ linv[p].pc = "finish"
    /\ LET c == linv[p]
           l == lambdas[c.l]
           m == l.metrics
       IN /\ linv' = [linv EXCEPT ![p] = [c EXCEPT !.pc = "done",
                                                   !.result = Lambda_Result(c, duration)]]
          /\ IF l.options.EnableMetrics
             THEN /\ metrics' = [metrics EXCEPT ![m] = updateMetrics(@, duration, c.err)]
                  /\ completed' = [completed EXCEPT ![m] =
                                     [n |-> @.n + 1, k |-> @.k + IF c.err # ErrNil THEN 1 ELSE 0]]
             ELSE UNCHANGED <<metrics, completed>>
    /\ UNCHANGED <<lambdas, ninvokes, origin>>

(***************************************************************************)
(* invoker.Invoker: WithConcurrency and Invoke.                            *)
(***************************************************************************)
VARIABLES
    semaphore,  \* inv.semaphore: a channel, or NilChan
    sems,       \* the channels made by WithConcurrency: capacity and fill
    invs        \* per goroutine, its call of Invoke

invokerVars == <<semaphore, sems, invs>>

NilChan == 0
\* fmt.Errorf("lambda '%s' not found", name)
ErrNotFound(name) == "lambda '" \o name \o "' not found"
ErrFn == "function error"
NoInvRet == [result |-> NilResult, err |-> ""]

\* pc: idle, get (line 45), check (line 51), select (line 52), blocked (parked
\* in the select), call (line 61), running (inside lambda.Invoke), release
\* (the deferred receive), done
\* woken: what ended the wait of a parked select, "send" or "done"
\* defer: whether the deferred release was registered
\* held: the channel this call's token sits in
\* unit: the Lambda that inv.Get returned
\* called: whether lambda.Invoke was called; cancelled: whether the context
\* was done when Invoke was called
IdleInv == [pc |-> "idle", name |-> "", input |-> 0, ctxDone |-> FALSE, woken |-> "",
            ch |-> NilChan, defer |-> FALSE, held |-> NilChan, unit |-> NoLambda,
            called |-> FALSE, ret |-> NoInvRet, cancelled |-> FALSE]

\* the Invoker type is instantiated at this type pair
InvTypePair == <<"int", "int">>

\* NewInvoker(); the Unit "f" has been registered with RegisterLambda
InitInvoker ==
    /\ semaphore = NilChan
    /\ sems = <<>>
    /\ invs = [p \in Procs |-> IdleInv]

IdleInvoker == InitInvoker

RegisteredF ==
    /\ globalRegistries = [k \in Keys |-> IF k = registryKey(InvTypePair) THEN 1 ELSE NoReg]
    /\ regs = <<Registry_Register(EmptyRegistry(InvTypePair), NewLambda("f", InvTypePair, 1), 1).reg>>
    /\ nextUnit = 2
    /\ call = [p \in Procs |-> IdleCall]
    /\ live = [tp \in TypePairs |-> IF tp = InvTypePair THEN {"f"} ELSE {}]

\* the Lambda registered as "f" was made with NewLambda("f", fn, opts...)
UnitF(opts) ==
    /\ lambdas = <<LambdaObject("f", opts, 1)>>
    /\ metrics = <<ZeroMetrics>>
    /\ linv = [p \in Procs |-> IdleLinv]
    /\ completed = <<[n |-> 0, k |-> 0]>>
    /\ ninvokes = 0
    /\ origin = <<NoLambda>>

InFlight(p) == invs[p].pc \notin {"idle", "done"}
Parked(c) == {q \in Procs : invs[q].pc = "blocked" /\ invs[q].woken = "" /\ invs[q].ch = c}

\* Invoker.WithConcurrency: a new channel of the given capacity, or nil
WithConcurrency(concurrency) ==
    /\ IF concurrency > 0
       THEN /\ Len(sems) < MaxChans
            /\ sems' = Append(sems, [cap |-> concurrency, len |-> 0])
            /\ semaphore' = Len(sems) + 1
       ELSE /\ semaphore' = NilChan
            /\ UNCHANGED sems
    /\ UNCHANGED invs

\* the call of Invoke(ctx, name, input) before its first step
StartInvoke(name, input, cancelled) ==
    [IdleInv EXCEPT !.pc = "get", !.name = name, !.input = input, !.ctxDone = cancelled,
                    !.cancelled = cancelled]

\* Invoker.Invoke is called with a context that may be cancelled already
Invoke(p, name, input, cancelled) ==
    /\ ~InFlight(p)
    /\ invs' = [invs EXCEPT ![p] = StartInvoke(name, input, cancelled)]
    /\ UNCHANGED <<semaphore, sems>>

\* a plausible slip: a missing name falls back to the first Lambda
Invoke_Lookup_FallsBack(c, g) ==
    IF g.found THEN [c EXCEPT !.pc = "check", !.unit = g.unit.id]
    ELSE [c EXCEPT !.pc = "check", !.unit = 1]

\* lines 45-48: with the Unit found go on, else return nil and "not found"
Invoke_Lookup(c, g) ==
    IF g.found THEN [c EXCEPT !.pc = "check", !.unit = g.unit.id]
    ELSE [c EXCEPT !.pc = "done",
                   !.ret = [result |-> NilResult, err |-> ErrNotFound(c.name)]]

\* lines 45-48: inv.Get(name) is registry.GetLambda, whose getRegistry makes
\* the Registry of the type pair if there is none yet
Invoke_Get(p) ==
    /\ invs[p].pc = "get"
    /\ LET key == registryKey(InvTypePair) IN
       IF globalRegistries[key] # NoReg
       THEN /\ invs' = [invs EXCEPT ![p] =
                         Invoke_Lookup(@, Registry_Get(regs[globalRegistries[key]], @.name))]
            /\ UNCHANGED registryVars
       ELSE /\ regs' = Append(regs, EmptyRegistry(InvTypePair))
            /\ globalRegistries' = [globalRegistries EXCEPT ![key] = Len(regs) + 1]
            /\ invs' = [invs EXCEPT ![p] =
                         Invoke_Lookup(@, Registry_Get(EmptyRegistry(InvTypePair), @.name))]
            /\ UNCHANGED <<nextUnit, call, live>>
    /\ UNCHANGED <<semaphore, sems>>

\* a plausible slip: the limit is not applied
Invoke_Check_NoLimit(p) ==
    /\ invs[p].pc = "check"
    /\ invs' = [invs EXCEPT ![p].pc = "call"]
    /\ UNCHANGED <<semaphore, sems>>

\* line 51: if inv.semaphore != nil
Invoke_Check(p) ==
    /\ invs[p].pc = "check"
    /\ invs' = [invs EXCEPT ![p].pc = IF semaphore # NilChan THEN "select" ELSE "call"]
    /\ UNCHANGED <<semaphore, sems>>

\* the send case of the select: the token is in the channel, the release is deferred
Acquire(p, c) ==
    /\ sems' = [sems EXCEPT ![c].len = @ + 1]
    /\ invs' = [invs EXCEPT ![p] = [@ EXCEPT !.pc = "call", !.ch = c, !.held = c,
                                              !.defer = TRUE]]

\* the ctx.Done() case of the select: return nil, ctx.Err()
ReturnCtxErr(p) ==
    /\ invs' = [invs EXCEPT ![p] = [@ EXCEPT !.pc = "done",
                                              !.ret = [result |-> NilResult, err |-> ErrCtx]]]
    /\ UNCHANGED sems

\* lines 52-57, on entry: a case that is ready is taken, either one if both
\* are; if none is ready the goroutine parks on both channels.  A send on the
\* nil channel is never ready.
Invoke_Select(p) ==
    /\ invs[p].pc = "select"
    /\ LET c == semaphore
           sendReady == c # NilChan /\ sems[c].len < sems[c].cap
       IN \/ sendReady /\ Acquire(p, c)
          \/ invs[p].ctxDone /\ ReturnCtxErr(p)
          \/ /\ ~sendReady /\ ~invs[p].ctxDone
             /\ invs' = [invs EXCEPT ![p] = [@ EXCEPT !.pc = "blocked", !.ch = c]]
             /\ UNCHANGED sems
    /\ UNCHANGED semaphore

\* a plausible slip: a call woken by its context goes on to the Unit
Invoke_Wake_IgnoresDone(p) ==
    /\ invs[p].pc = "blocked" /\ invs[p].woken # ""
    /\ invs' = [invs EXCEPT ![p] = [@ EXCEPT !.pc = "call", !.woken = "",
                                              !.defer = (invs[p].woken = "send")]]
    /\ UNCHANGED <<semaphore, sems>>

\* a parked select resumes with the case that woke it
Invoke_Wake(p) ==
    /\ invs[p].pc = "blocked" /\ invs[p].woken # ""
    /\ IF invs[p].woken = "send"
       THEN /\ invs' = [invs EXCEPT ![p] = [@ EXCEPT !.pc = "call", !.woken = "",
                                                     !.defer = TRUE]]
            /\ UNCHANGED sems
       ELSE ReturnCtxErr(p)
    /\ UNCHANGED semaphore

\* the context of the call is cancelled or expires; a select parked on
\* ctx.Done() is woken with that case
Ctx_Cancel(p) ==
    /\ InFlight(p)
    /\ ~invs[p].ctxDone
    /\ invs' = [invs EXCEPT ![p] =
                  [@ EXCEPT !.ctxDone = TRUE,
                            !.woken = IF invs[p].pc = "blocked" /\ invs[p].woken = ""
                                      THEN "done" ELSE @]]
    /\ UNCHANGED <<semaphore, sems>>

\* line 61: lambda.Invoke(ctx, input) starts
Invoke_Call(p) ==
    /\ invs[p].pc = "call"
    /\ invs' = [invs EXCEPT ![p] = [@ EXCEPT !.pc = "running", !.called = TRUE]]
    /\ UNCHANGED <<semaphore, sems>>

\* what lambda.Invoke returns for the outcome err of its function
Unit_Result(c, err) ==
    LambdaResult(IF err = ErrNil THEN Fn(c.input) ELSE ZeroOutput, err, UnitDuration, TRUE)

\* a plausible slip: the slot is released on success only
Unit_Return_LeakOnError(p, err) ==
    /\ invs[p].pc = "running"
    /\ invs' = [invs EXCEPT ![p] =
                  [@ EXCEPT !.pc = IF invs[p].defer /\ err = ErrNil THEN "release" ELSE "done",
                            !.ret = [result |-> Unit_Result(invs[p], err), err |-> err]]]
    /\ UNCHANGED <<metrics, completed>>
    /\ UNCHANGED <<semaphore, sems>>

\* lambda.Invoke returns its result and nil, the function's error or the
\* context's error, and has updated the statistics if the options enable them;
\* the deferred release runs next if one was registered
Unit_Return(p, err) ==
    /\ invs[p].pc = "running"
    /\ invs' = [invs EXCEPT ![p] =
                  [@ EXCEPT !.pc = IF invs[p].defer THEN "release" ELSE "done",
                            !.ret = [result |-> Unit_Result(invs[p], err), err |-> err]]]
    /\ LET l == lambdas[invs[p].unit]
           m == l.metrics
       IN IF l.options.EnableMetrics
          THEN /\ metrics' = [metrics EXCEPT ![m] = updateMetrics(@, UnitDuration, err)]
               /\ completed' = [completed EXCEPT ![m] =
                                  [n |-> @.n + 1, k |-> @.k + IF err # ErrNil THEN 1 ELSE 0]]
          ELSE UNCHANGED <<metrics, completed>>
    /\ UNCHANGED <<semaphore, sems>>

\* line 54, the deferred <-inv.semaphore: receives from the channel the field
\* holds now.  A receive from a full channel with a parked sender takes a
\* token and puts the sender's in; a receive from an empty or nil channel
\* does not return.
Invoke_Release(p) ==
    /\ invs[p].pc = "release"
    /\ semaphore # NilChan
    /\ sems[semaphore].len > 0
    /\ LET c == semaphore IN
       \/ /\ Parked(c) = {}
          /\ sems' = [sems EXCEPT ![c].len = @ - 1]
          /\ invs' = [invs EXCEPT ![p] = [@ EXCEPT !.pc = "done", !.held = NilChan]]
       \/ /\ \E q \in Parked(c) :
                invs' = [invs EXCEPT ![p] = [@ EXCEPT !.pc = "done", !.held = NilChan],
                                     ![q] = [@ EXCEPT !.woken = "send", !.held = c]]
          /\ UNCHANGED sems
    /\ UNCHANGED semaphore

(***************************************************************************)
(* invoker.Invoker: Timeout, InvokeAsync, InvokeMultiple, Pipeline, Retry. *)
(***************************************************************************)
VARIABLES
    entry       \* the call of an entry point that the main goroutine makes

entryVars == <<entry>>

NoEntry == [op |-> "", pc |-> "idle", ctxDone |-> FALSE]
NilSlice == <<>>
NoEntryRet == [result |-> NilResult, err |-> ""]

IdleEntry == entry = NoEntry

\* the goroutine that InvokeMultiple starts for a request
ProcFor(name) == IF name = "f" THEN 1 ELSE 2
\* the request maps and the input slices of the model
RequestMaps == UNION {[R -> {1, 2}] : R \in SUBSET Names}
InputSlices == {<<>>, <<1>>, <<1, 2>>, <<2, 1>>}

\* the Lambdas "f" and "g" exist; "f" is registered
TwoUnits ==
    /\ lambdas = <<LambdaObject("f", <<>>, 1), LambdaObject("g", <<>>, 2)>>
    /\ metrics = <<ZeroMetrics, ZeroMetrics>>
    /\ linv = [p \in Procs |-> IdleLinv]
    /\ completed = <<[n |-> 0, k |-> 0], [n |-> 0, k |-> 0]>>
    /\ ninvokes = 0
    /\ origin = <<NoLambda, NoLambda>>

\* "f" and "g" have been registered with RegisterLambda
RegisteredFG ==
    /\ globalRegistries = [k \in Keys |-> IF k = registryKey(InvTypePair) THEN 1 ELSE NoReg]
    /\ regs = <<Registry_Register(
                  Registry_Register(EmptyRegistry(InvTypePair),
                                    NewLambda("f", InvTypePair, 1), 1).reg,
                  NewLambda("g", InvTypePair, 2), 2).reg>>
    /\ nextUnit = 3
    /\ call = [p \in Procs |-> IdleCall]
    /\ live = [tp \in TypePairs |-> IF tp = InvTypePair THEN {"f", "g"} ELSE {}]

\* the main goroutine calls an entry point of the Invoker
EnterCall(op, cancelled) ==
    /\ entry.pc = "idle"
    /\ UNCHANGED <<semaphore, sems>>

\* the result shell the entry points make for an error
ErrorShell(err) == LambdaResult(ZeroOutput, err, 0, TRUE)

\* inv.Invoke(ctx, name, input), called by the main goroutine
Entry_Invoke(name, input, cancelled) ==
    /\ EnterCall("Invoke", cancelled)
    /\ Invoke(SeqProc, name, input, cancelled)
    /\ entry' = [op |-> "Invoke", pc |-> "running", ctxDone |-> cancelled,
                 ret |-> NoEntryRet]

\* inv.Timeout(ctx, name, input, timeout): Invoke with the derived context
Entry_Timeout(name, input, cancelled) ==
    /\ EnterCall("Timeout", cancelled)
    /\ Invoke(SeqProc, name, input, cancelled)
    /\ entry' = [op |-> "Timeout", pc |-> "running", ctxDone |-> cancelled,
                 ret |-> NoEntryRet]

\* Invoke or Timeout returns what Invoke returned
Entry_Invoke_Return ==
    /\ entry.op \in {"Invoke", "Timeout"} /\ entry.pc = "running"
    /\ invs[SeqProc].pc = "done"
    /\ entry' = [entry EXCEPT !.pc = "returned", !.ret = invs[SeqProc].ret]
    /\ UNCHANGED invokerVars

\* the context of the entry point is cancelled or expires: every call of
\* Invoke made with it sees it done
Entry_Cancel ==
    /\ entry.pc \notin {"idle", "returned"}
    /\ ~entry.ctxDone
    /\ entry' = [entry EXCEPT !.ctxDone = TRUE]
    /\ invs' = [p \in Procs |->
                  IF InFlight(p)
                  THEN [invs[p] EXCEPT !.ctxDone = TRUE,
                                       !.woken = IF invs[p].pc = "blocked" /\ invs[p].woken = ""
                                                 THEN "done" ELSE @]
                  ELSE invs[p]]
    /\ UNCHANGED <<semaphore, sems>>

\* fmt.Errorf("pipeline failed at step %d: %w", i, err)
ErrPipeline(i, err) == "pipeline failed at step " \o ToString(i) \o ": " \o err
\* fmt.Errorf("max retries exceeded, last error: %w", lastErr)
ErrMaxRetries(lastErr) == "max retries exceeded, last error: " \o lastErr

\* inv.Pipeline(ctx, name, inputs): results := make([]*LambdaResult, len(inputs));
\* i is the index of the range loop, invoked the inputs handed to Invoke
Entry_Pipeline(name, inputs, cancelled) ==
    /\ EnterCall("Pipeline", cancelled)
    /\ entry' = [op |-> "Pipeline", pc |-> "loop", ctxDone |-> cancelled,
                 name |-> name, inputs |-> inputs, i |-> 0,
                 results |-> [k \in 1..Len(inputs) |-> NilResult],
                 invoked |-> <<>>,
                 ret |-> [results |-> NilSlice, err |-> ErrNil]]
    /\ UNCHANGED invs

\* line 125: inv.Invoke(ctx, name, input) for the next input
Pipeline_Invoke ==
    /\ entry.op = "Pipeline" /\ entry.pc = "loop"
    /\ entry.i < Len(entry.inputs)
    /\ Invoke(SeqProc, entry.name, entry.inputs[entry.i + 1], entry.ctxDone)
    /\ entry' = [entry EXCEPT !.pc = "wait",
                              !.invoked = Append(@, entry.inputs[entry.i + 1])]

\* a plausible slip: the result is stored from the end of the slice
Pipeline_Store_FromEnd(results, i, res) ==
    [results EXCEPT ![Len(results) - i] = res]

\* line 129: results[i] = result (i counts from 0)
Pipeline_Store(results, i, res) ==
    [results EXCEPT ![i + 1] = res]

\* lines 126-134: the error of Invoke ends the pipeline with nil results;
\* else the result is stored, and its Error ends the pipeline with the
\* results so far
Pipeline_Collect ==
    /\ entry.op = "Pipeline" /\ entry.pc = "wait"
    /\ invs[SeqProc].pc = "done"
    /\ LET r == invs[SeqProc].ret
           stored == Pipeline_Store(entry.results, entry.i, r.result)
       IN entry' =
            IF r.err # ErrNil
            THEN [entry EXCEPT !.pc = "returned",
                               !.ret = [results |-> NilSlice,
                                        err |-> ErrPipeline(entry.i, r.err)]]
            ELSE IF r.result.Error # ErrNil
            THEN [entry EXCEPT !.pc = "returned", !.results = stored,
                               !.ret = [results |-> SubSeq(stored, 1, entry.i + 1),
                                        err |-> r.result.Error]]
            ELSE [entry EXCEPT !.pc = "loop", !.results = stored, !.i = @ + 1]
    /\ UNCHANGED invokerVars

\* line 137: the range loop is over, return results, nil
Pipeline_Return ==
    /\ entry.op = "Pipeline" /\ entry.pc = "loop"
    /\ entry.i = Len(entry.inputs)
    /\ entry' = [entry EXCEPT !.pc = "returned",
                              !.ret = [results |-> entry.results, err |-> ErrNil]]
    /\ UNCHANGED invokerVars

\* inv.Retry(ctx, name, input, maxRetries, delay)
Entry_Retry(name, input, maxRetries, cancelled) ==
    /\ EnterCall("Retry", cancelled)
    /\ entry' = [op |-> "Retry", pc |-> "loop", ctxDone |-> cancelled,
                 name |-> name, input |-> input, maxRetries |-> maxRetries,
                 attempt |-> 0, lastErr |-> ErrNil, ret |-> NoEntryRet]
    /\ UNCHANGED invs

\* lines 194-203: the first attempt calls Invoke at once; a later one waits in
\* the select first; after the last one the shell is returned with lastErr
Retry_Loop ==
    /\ entry.op = "Retry" /\ entry.pc = "loop"
    /\ IF entry.attempt > entry.maxRetries
       THEN /\ entry' = [entry EXCEPT !.pc = "returned",
                                      !.ret = [result |-> ErrorShell(ErrMaxRetries(entry.lastErr)),
                                               err |-> entry.lastErr]]
            /\ UNCHANGED invs
       ELSE IF entry.attempt > 0
       THEN /\ entry' = [entry EXCEPT !.pc = "delay"]
            /\ UNCHANGED invs
       ELSE /\ Invoke(SeqProc, entry.name, entry.input, entry.ctxDone)
            /\ entry' = [entry EXCEPT !.pc = "wait"]
    /\ UNCHANGED <<semaphore, sems>>

\* lines 196-200: the timer fires; with the context done as well, either
\* case of the select may be taken
Retry_Delay_Timer ==
    /\ entry.op = "Retry" /\ entry.pc = "delay"
    /\ Invoke(SeqProc, entry.name, entry.input, entry.ctxDone)
    /\ entry' = [entry EXCEPT !.pc = "wait"]

\* lines 197-198: case <-ctx.Done(): return nil, ctx.Err()
Retry_Delay_Done ==
    /\ entry.op = "Retry" /\ entry.pc = "delay"
    /\ entry.ctxDone
    /\ entry' = [entry EXCEPT !.pc = "returned",
                              !.ret = [result |-> NilResult, err |-> ErrCtx]]
    /\ UNCHANGED invokerVars

\* lines 203-212: a success is returned, a failure is kept in lastErr
Retry_Collect ==
    /\ entry.op = "Retry" /\ entry.pc = "wait"
    /\ invs[SeqProc].pc = "done"
    /\ LET r == invs[SeqProc].ret IN
       entry' =
         IF r.err = ErrNil /\ r.result.Error = ErrNil
         THEN [entry EXCEPT !.pc = "returned", !.ret = [result |-> r.result, err |-> ErrNil]]
         ELSE [entry EXCEPT !.pc = "loop", !.attempt = @ + 1,
                            !.lastErr = IF r.err # ErrNil THEN r.err ELSE r.result.Error]
    /\ UNCHANGED invokerVars

\* inv.InvokeAsync(ctx, name, input): a channel of capacity 1 and a goroutine
\* that calls Invoke; got is what the caller has received from the channel
Entry_InvokeAsync(p, name, input, cancelled) ==
    /\ EnterCall("InvokeAsync", cancelled)
    /\ Invoke(p, name, input, cancelled)
    /\ entry' = [op |-> "InvokeAsync", pc |-> "running", ctxDone |-> cancelled,
                 p |-> p, chan |-> [buf |-> <<>>, closed |-> FALSE], got |-> <<>>]

\* a plausible slip: nothing is sent when Invoke returned an error
Async_Result_NoneOnError(ret) ==
    IF ret.err # ErrNil THEN <<>> ELSE <<ret.result>>

\* lines 70-81: what the goroutine sends, a shell for an error of Invoke
Async_Result(ret) ==
    IF ret.err # ErrNil THEN <<ErrorShell(ret.err)>> ELSE <<ret.result>>

\* line 81: resultChan <- result; the buffer has room for it
Async_Send ==
    /\ entry.op = "InvokeAsync" /\ entry.pc = "running"
    /\ invs[entry.p].pc = "done"
    /\ Len(entry.chan.buf) < 1
    /\ entry' = [entry EXCEPT !.pc = "sent",
                              !.chan.buf = @ \o Async_Result(invs[entry.p].ret)]
    /\ UNCHANGED invokerVars

\* line 69: the deferred close(resultChan)
Async_Close ==
    /\ entry.op = "InvokeAsync" /\ entry.pc = "sent"
    /\ entry' = [entry EXCEPT !.pc = "closed", !.chan.closed = TRUE]
    /\ UNCHANGED invokerVars

\* the caller receives from the channel: a buffered value, or nil once the
\* channel is closed and empty; on an open empty channel it waits
Async_Receive ==
    /\ entry.op = "InvokeAsync"
    /\ Len(entry.got) < 2
    /\ \/ /\ entry.chan.buf # <<>>
          /\ entry' = [entry EXCEPT !.got = Append(@, Head(entry.chan.buf)),
                                    !.chan.buf = Tail(@)]
       \/ /\ entry.chan.buf = <<>> /\ entry.chan.closed
          /\ entry' = [entry EXCEPT !.got = Append(@, NilResult)]
    /\ UNCHANGED invokerVars

\* inv.InvokeMultiple(ctx, requests): one goroutine per request, all with
\* the context of the caller; the WaitGroup counts them
Entry_InvokeMultiple(requests, cancelled) ==
    /\ EnterCall("InvokeMultiple", cancelled)
    /\ invs' = [p \in Procs |->
                  IF \E nm \in DOMAIN requests : ProcFor(nm) = p
                  THEN LET nm == CHOOSE n \in DOMAIN requests : ProcFor(n) = p
                       IN StartInvoke(nm, requests[nm], cancelled)
                  ELSE invs[p]]
    /\ entry' = [op |-> "InvokeMultiple", pc |-> "wait", ctxDone |-> cancelled,
                 requests |-> requests, wg |-> Cardinality(DOMAIN requests),
                 results |-> [nm \in {} |-> NilResult],
                 ret |-> [nm \in {} |-> NilResult]]

\* a plausible slip: the entry of a failed request is left out
Multi_Put_SkipError(results, nm, ret) ==
    IF ret.err # ErrNil THEN results
    ELSE [n \in DOMAIN results \cup {nm} |-> IF n = nm THEN ret.result ELSE results[n]]

\* lines 102-112: results[nm] is a shell for an error of Invoke, else the result
Multi_Put(results, nm, ret) ==
    [n \in DOMAIN results \cup {nm} |->
        IF n = nm THEN (IF ret.err # ErrNil THEN ErrorShell(ret.err) ELSE ret.result)
        ELSE results[n]]

\* lines 98-112, under mu: the goroutine of a request stores its entry, and
\* wg.Done() runs
Multi_Store(nm) ==
    /\ entry.op = "InvokeMultiple" /\ entry.pc = "wait"
    /\ nm \in DOMAIN entry.requests
    /\ invs[ProcFor(nm)].pc = "done"
    /\ nm \notin DOMAIN entry.results
    /\ entry' = [entry EXCEPT !.results = Multi_Put(@, nm, invs[ProcFor(nm)].ret),
                              !.wg = @ - 1]
    /\ UNCHANGED invokerVars

\* lines 116-117: wg.Wait() returns when the counter is zero
Multi_Return ==
    /\ entry.op = "InvokeMultiple" /\ entry.pc = "wait"
    /\ entry.wg = 0
    /\ entry' = [entry EXCEPT !.pc = "returned", !.ret = entry.results]
    /\ UNCHANGED invokerVars

\* the batch sizes of the model: negative, zero, one, and more
BatchSizes == -1..2

\* Batch, lines 233-235: if batchSize <= 0 { batchSize = len(inputs) }
Batch_Size(inputs, batchSize) == IF batchSize <= 0 THEN Len(inputs) ELSE batchSize

\* Batch, lines 243-250: the indices i of the loop, one batch inputs[i:end] each
Batch_Starts(inputs, batchSize) ==
    {i \in 0..(Len(inputs) - 1) : i % Batch_Size(inputs, batchSize) = 0}

\* inv.Batch(ctx, name, inputs, batchSize): one goroutine per batch, which
\* calls InvokeMultiple with the one request name: batch[0]; goroutine b
\* works on the batch that starts at (b - 1) * batchSize
Entry_Batch(name, inputs, batchSize, cancelled) ==
    /\ EnterCall("Batch", cancelled)
    /\ LET size == Batch_Size(inputs, batchSize)
           nb == Cardinality(Batch_Starts(inputs, batchSize))
       IN /\ nb <= NumProcs
          /\ invs' = [p \in Procs |->
                        IF p <= nb
                        THEN StartInvoke(name, inputs[(p - 1) * size + 1], cancelled)
                        ELSE invs[p]]
          /\ entry' = [op |-> "Batch", pc |-> "wait", ctxDone |-> cancelled,
                       name |-> name, inputs |-> inputs, batchSize |-> batchSize,
                       wg |-> nb, batches |-> 1..nb, stored |-> {},
                       allResults |-> NilSlice, hasError |-> FALSE, errChan |-> <<>>,
                       ret |-> [results |-> NilSlice, err |-> ErrNil]]

\* Batch, lines 255-275, under mu: InvokeMultiple has returned its map with
\* the one entry; after an error nothing more is kept; an entry with an
\* Error sets hasError and is sent to errChan if it has room; else the entry
\* is appended to allResults; wg.Done() runs
Batch_Store(b) ==
    /\ entry.op = "Batch" /\ entry.pc = "wait"
    /\ b \in entry.batches \ entry.stored
    /\ invs[b].pc = "done"
    /\ LET batchResults == Multi_Put([nm \in {} |-> NilResult], entry.name, invs[b].ret)
           r == batchResults[entry.name]
       IN entry' =
            IF entry.hasError
            THEN [entry EXCEPT !.stored = @ \cup {b}, !.wg = @ - 1]
            ELSE IF r.Error # ErrNil
            THEN [entry EXCEPT !.stored = @ \cup {b}, !.wg = @ - 1, !.hasError = TRUE,
                               !.errChan = IF Len(@) < 1 THEN Append(@, r.Error) ELSE @]
            ELSE [entry EXCEPT !.stored = @ \cup {b}, !.wg = @ - 1,
                               !.allResults = Append(@, r)]
    /\ UNCHANGED invokerVars

\* Batch, lines 278-285: wg.Wait() returns; the error in errChan, if any, is
\* returned with the results
Batch_Return ==
    /\ entry.op = "Batch" /\ entry.pc = "wait"
    /\ entry.wg = 0
    /\ entry' = [entry EXCEPT !.pc = "returned",
                              !.ret = [results |-> entry.allResults,
                                       err |-> IF entry.errChan # <<>>
                                               THEN Head(entry.errChan) ELSE ErrNil]]
    /\ UNCHANGED invokerVars

(***************************************************************************)
(* RateLimiter.Allow called from several goroutines; the Metrics           *)
(* middleware and LambdaWithMiddleware; the wait of Retry in nanoseconds.   *)
(***************************************************************************)
VARIABLES
    allow,      \* per goroutine: where it is in RateLimiter.Allow
    lwm,        \* a LambdaWithMiddleware built with Metrics(passed)
    backoff     \* the loop of Retry: attempt and the wait computed for it

moreVars == <<allow, lwm, backoff>>

\* the largest maxRetries given to Retry in the model
MaxAttempt == 64

\* an int64 in four limbs of 16 bits, the lowest first
Zero64 == <<0, 0, 0, 0>>

IdleAllow == [pc |-> "idle", now |-> 0, seen |-> <<>>, calls |-> 0]
IdleMore ==
    /\ allow = [p \in Procs |-> IdleAllow]
    /\ lwm = [passed |-> ZeroMetrics, own |-> ZeroMetrics, n |-> 0]
    /\ backoff = [maxRetries |-> 0, attempt |-> 0, wait |-> Zero64]

\* Allow, now := time.Now()
Allow_Begin(p) ==
    /\ allow[p].pc = "idle"
    /\ allow[p].calls < MaxInvokes
    /\ allow' = [allow EXCEPT ![p].pc = "prune", ![p].now = clock, ![p].calls = @ + 1]
    /\ UNCHANGED <<limiter, admitted>>

\* Allow, the loop that keeps the requests of the last window, and
\* rl.requests = rl.requests[:validIdx]; nothing is locked
Allow_Prune(p) ==
    /\ allow[p].pc = "prune"
    /\ limiter' = [limiter EXCEPT !.requests =
                      SelectSeq(@, LAMBDA t : allow[p].now - t < limiter.window)]
    /\ allow' = [allow EXCEPT ![p].pc = "check"]
    /\ UNCHANGED admitted

\* Allow, if len(rl.requests) >= rl.maxRequests { return false }
Allow_Check(p) ==
    /\ allow[p].pc = "check"
    /\ allow' = [allow EXCEPT ![p].pc =
                    IF Len(limiter.requests) >= limiter.maxRequests THEN "idle" ELSE "append"]
    /\ UNCHANGED <<limiter, admitted>>

\* Allow, append(rl.requests, now): the slice is read
Allow_Append(p) ==
    /\ allow[p].pc = "append"
    /\ allow' = [allow EXCEPT ![p].pc = "store", ![p].seen = limiter.requests]
    /\ UNCHANGED <<limiter, admitted>>

\* Allow, rl.requests = ...: the slice is written, and true is returned
Allow_Store(p) ==
    /\ allow[p].pc = "store"
    /\ limiter' = [limiter EXCEPT !.requests = Append(allow[p].seen, allow[p].now)]
    /\ admitted' = Append(admitted, allow[p].now)
    /\ allow' = [allow EXCEPT ![p].pc = "idle", ![p].seen = <<>>]

MetricsMw == [kind |-> "Metrics", name |-> "", maxRetries |-> 0]

\* Metrics, up to its call of next
Enter_Metrics ==
    /\ Entering("Metrics")
    /\ CallNext(<<Event("enter", Handler[depth])>>)
    /\ UNCHANGED <<xchain, xinput, ctxDone, lwm>>

\* Metrics, after next has returned: the record given to Metrics is updated
\* under its lock
Return_Metrics ==
    /\ Returning("Metrics")
    /\ ReturnFrom(result)
    /\ \E duration \in 0..1 :
          lwm' = [lwm EXCEPT !.passed = updateMetrics(@, duration, result.err)]
    /\ UNCHANGED <<xchain, xinput, ctxDone>>

\* LambdaWithMiddleware.Invoke: l.chain.Execute(ctx, input)
LambdaWithMiddleware_Invoke(input, cancelled) ==
    /\ lwm.n < MaxInvokes
    /\ Chain_Execute(input, cancelled)
    /\ UNCHANGED lwm

\* LambdaWithMiddleware.Invoke returns the result; l.metrics is not touched
LambdaWithMiddleware_Return ==
    /\ Execute_Return
    /\ lwm' = [lwm EXCEPT !.n = @ + 1]

\* LambdaWithMiddleware.GetMetrics: a copy of l.metrics
LambdaWithMiddleware_GetMetrics == lwm.own

\* int64 arithmetic on limbs: the product with a small factor, and the
\* shift of 1, both modulo 2^64
MulSmall(x, m) ==
    LET p1 == x[1] * m
        p2 == x[2] * m + (p1 \div 65536)
        p3 == x[3] * m + (p2 \div 65536)
        p4 == x[4] * m + (p3 \div 65536)
    IN  <<p1 % 65536, p2 % 65536, p3 % 65536, p4 % 65536>>
RECURSIVE Pow2(_)
Pow2(n) == IF n = 0 THEN 1 ELSE 2 * Pow2(n - 1)
Shl1(sh) ==
    [i \in 1..4 |-> IF sh < 64 /\ sh \div 16 = i - 1 THEN Pow2(sh % 16) ELSE 0]
Negative64(x) == x[4] >= 32768
RECURSIVE LessFrom(_, _, _)
LessFrom(x, y, i) ==
    IF i = 0 THEN FALSE
    ELSE IF x[i] # y[i] THEN x[i] < y[i]
    ELSE LessFrom(x, y, i - 1)
\* x < y for int64
Less64(x, y) ==
    IF Negative64(x) # Negative64(y) THEN Negative64(x) ELSE LessFrom(x, y, 4)

\* time.Millisecond and time.Second as factors of a Duration
TimesMillisecond(x) == MulSmall(MulSmall(x, 1000), 1000)
HundredMilliseconds == TimesMillisecond(<<100, 0, 0, 0>>)
FiveSeconds == MulSmall(TimesMillisecond(<<5, 0, 0, 0>>), 1000)

\* Retry: time.Duration(1<<uint(attempt-1)) * 100 * time.Millisecond, capped
\* at 5*time.Second
Retry_BackoffFor(attempt) ==
    LET b == TimesMillisecond(MulSmall(Shl1(attempt - 1), 100)) IN
    IF Less64(FiveSeconds, b) THEN FiveSeconds ELSE b

\* Retry, the head of the loop for an attempt after the first
Retry_NextAttempt ==
    /\ backoff.attempt < backoff.maxRetries
    /\ backoff' = [backoff EXCEPT !.attempt = @ + 1, !.wait = Retry_BackoffFor(backoff.attempt + 1)]

vars == <<registryVars, useVars, execVars, unitVars, invokerVars, entryVars, mwVars, moreVars>>

IdleRegistry == InitRegistry

\* One caller of the registry, one call at a time.
NextRegistry ==
    /\ RegistryCall(SeqProc) \/ RegistryStep(SeqProc)
    /\ UNCHANGED <<useVars, execVars, unitVars, invokerVars, entryVars, mwVars, moreVars>>

\* nothing is registered; the chain and the invoker are not used
Init == InitRegistry /\ IdleUse /\ IdleExec /\ IdleUnit /\ IdleInvoker /\ IdleEntry /\ IdleMw /\ IdleMore

SpecRegistry == Init /\ [][NextRegistry]_vars

\* Goroutines registering and looking up concurrently on one type pair.
ConcTypePair == <<"int", "int">>

NextRegistryConc ==
    /\ \E p \in Procs :
          \/ \E name \in Names : RegisterLambda(p, ConcTypePair, name)
          \/ \E name \in Names : GetLambda(p, ConcTypePair, name)
          \/ getRegistry_Load(p)
          \/ getRegistry_Store(p)
          \/ Do_Register(p)
          \/ Do_Get(p)
          \/ Return(p)
    /\ UNCHANGED <<useVars, execVars, unitVars, invokerVars, entryVars, mwVars, moreVars>>

SpecRegistryConc == Init /\ [][NextRegistryConc]_vars

\* Chains are built and extended.
NextChainUse ==
    /\ \/ \E mws \in UseLists : NewChain(mws)
       \/ \E c \in 1..Len(chains), mws \in UseLists : Use(c, mws)
       \/ \E name \in Names, mws \in UseLists :
             NewLambdaWithMiddleware(name, mws)
       \/ \E l \in 1..Len(lwms), mws \in UseLists :
             LambdaWithMiddleware_Use(l, mws)
    /\ UNCHANGED <<registryVars, execVars, unitVars, invokerVars, entryVars, mwVars, moreVars>>

SpecChainUse == Init /\ [][NextChainUse]_vars

\* A chain is executed.
NextChain ==
    /\ \/ \E input \in Inputs, cancelled \in BOOLEAN : Chain_Execute(input, cancelled)
       \/ Cancel
       \/ Enter_final
       \/ Enter_Logger
       \/ Return_Logger
       \/ Enter_ValidateInput
       \/ Return_ValidateInput
       \/ Enter_Retry
       \/ Return_Retry
       \/ Retry_Backoff_Timer
       \/ Retry_Backoff_Done
       \/ Execute_Return
    /\ UNCHANGED <<registryVars, useVars, unitVars, invokerVars, entryVars, mwVars, moreVars>>

InitChain == IdleRegistry /\ IdleUse /\ InitExec /\ IdleUnit /\ IdleInvoker /\ IdleEntry /\ IdleMw /\ IdleMore

SpecChain == InitChain /\ [][NextChain]_vars

\* the steps of a call of Invoke
InvokeStep(p) ==
    \/ Invoke_Get(p) /\ UNCHANGED <<metrics, completed>>
    \/ /\ \/ Invoke_Check(p)
          \/ Invoke_Select(p)
          \/ Invoke_Wake(p)
          \/ Invoke_Call(p)
          \/ Invoke_Release(p)
       /\ UNCHANGED <<registryVars, metrics, completed>>
    \/ \E err \in {ErrNil, ErrFn, ErrCtx} : Unit_Return(p, err) /\ UNCHANGED registryVars

UnitObjectsKept == UNCHANGED <<lambdas, linv, ninvokes, origin>>

\* An Invoker is configured while no call is in flight, and goroutines call
\* Invoke on it concurrently.
NextInvoker ==
    /\ \/ /\ \A p \in Procs : ~InFlight(p)
          /\ \E concurrency \in 0..MaxConc : WithConcurrency(concurrency)
          /\ UNCHANGED <<registryVars, metrics, completed>>
       \/ \E p \in Procs :
             \/ /\ \E name \in Names, cancelled \in BOOLEAN : Invoke(p, name, 1, cancelled)
                /\ UNCHANGED <<registryVars, metrics, completed>>
             \/ Ctx_Cancel(p) /\ UNCHANGED <<registryVars, metrics, completed>>
             \/ InvokeStep(p)
    /\ UnitObjectsKept
    /\ UNCHANGED <<useVars, execVars, entryVars, mwVars, moreVars>>

InitInvokerSpec ==
    RegisteredF /\ IdleUse /\ IdleExec /\ UnitF(<<WithEnableMetrics(FALSE)>>) /\ InitInvoker
    /\ IdleEntry /\ IdleMw /\ IdleMore

SpecInvoker == InitInvokerSpec /\ [][NextInvoker]_vars

\* The Invoker is configured again at any time, also while goroutines are
\* inside Invoke.
NextInvokerReconf ==
    /\ \/ /\ \E concurrency \in 0..MaxConc : WithConcurrency(concurrency)
          /\ UNCHANGED <<registryVars, metrics, completed>>
       \/ \E p \in Procs :
             \/ /\ \E name \in Names, cancelled \in BOOLEAN : Invoke(p, name, 1, cancelled)
                /\ UNCHANGED <<registryVars, metrics, completed>>
             \/ Ctx_Cancel(p) /\ UNCHANGED <<registryVars, metrics, completed>>
             \/ InvokeStep(p)
    /\ UnitObjectsKept
    /\ UNCHANGED <<useVars, execVars, entryVars, mwVars, moreVars>>

SpecInvokerReconf == InitInvokerSpec /\ [][NextInvokerReconf]_vars

\* The Invoker has been configured with NewInvoker().WithConcurrency(k), and
\* goroutines call Invoke on it concurrently.
ConfiguredInvoker ==
    /\ \E k \in 1..MaxConc : sems = <<[cap |-> k, len |-> 0]>>
    /\ semaphore = 1
    /\ invs = [p \in Procs |-> IdleInv]

NextInvokerConfigured ==
    /\ \E p \in Procs :
          \/ /\ \E name \in Names, cancelled \in BOOLEAN : Invoke(p, name, 1, cancelled)
             /\ UNCHANGED <<registryVars, metrics, completed>>
          \/ Ctx_Cancel(p) /\ UNCHANGED <<registryVars, metrics, completed>>
          \/ InvokeStep(p)
    /\ UnitObjectsKept
    /\ UNCHANGED <<useVars, execVars, entryVars, mwVars, moreVars>>

\* The scheduler runs every goroutine that can run: a woken select resumes.
FairInvoker ==
    \A p \in Procs :
        WF_vars(Invoke_Wake(p) /\ UNCHANGED <<registryVars, useVars, execVars, unitVars, entryVars, mwVars, moreVars>>)

InitConfigured ==
    RegisteredF /\ IdleUse /\ IdleExec /\ UnitF(<<WithEnableMetrics(FALSE)>>) /\ ConfiguredInvoker
    /\ IdleEntry /\ IdleMw /\ IdleMore

SpecInvokerFair == InitConfigured /\ [][NextInvokerConfigured]_vars /\ FairInvoker

\* The steps of the goroutines of an entry point between its call and its return.
EntryStep ==
    \/ Entry_Invoke_Return
    \/ Pipeline_Invoke
    \/ Pipeline_Collect
    \/ Pipeline_Return
    \/ Retry_Loop
    \/ Retry_Delay_Timer
    \/ Retry_Delay_Done
    \/ Retry_Collect
    \/ Async_Send
    \/ Async_Close
    \/ \E nm \in Names : Multi_Store(nm)
    \/ Multi_Return

\* The calls of the entry points by the main goroutine, the end of their
\* context, and the receives from the channel of InvokeAsync.
EntryCall ==
    \/ \E name \in Names, cancelled \in BOOLEAN :
          \/ Entry_Invoke(name, 1, cancelled)
          \/ Entry_Timeout(name, 1, cancelled)
          \/ \E inputs \in InputSlices : Entry_Pipeline(name, inputs, cancelled)
          \/ \E maxRetries \in 0..MaxRetries : Entry_Retry(name, 1, maxRetries, cancelled)
          \/ \E p \in Procs : Entry_InvokeAsync(p, name, 1, cancelled)
    \/ \E requests \in RequestMaps, cancelled \in BOOLEAN :
          Entry_InvokeMultiple(requests, cancelled)
    \/ Entry_Cancel
    \/ Async_Receive

\* what the goroutines do by themselves once an entry point has been called
Progress ==
    /\ \/ EntryStep /\ UNCHANGED <<registryVars, metrics, completed>>
       \/ \E p \in Procs : InvokeStep(p) /\ UNCHANGED entryVars
    /\ UnitObjectsKept
    /\ UNCHANGED <<useVars, execVars, mwVars, moreVars>>

\* The main goroutine calls the entry points of an Invoker one after the other.
NextEntry ==
    \/ /\ EntryCall
       /\ UNCHANGED <<registryVars, metrics, completed>>
       /\ UnitObjectsKept
       /\ UNCHANGED <<useVars, execVars, mwVars, moreVars>>
    \/ Progress

\* NewInvoker(), with or without WithConcurrency(k); "f", or "f" and "g", or
\* nothing yet is registered for the type pair of the Invoker
InitEntry ==
    /\ IdleRegistry \/ RegisteredF \/ RegisteredFG
    /\ IdleUse /\ IdleExec
    /\ TwoUnits
    /\ InitInvoker \/ ConfiguredInvoker
    /\ IdleEntry /\ IdleMw /\ IdleMore

\* The scheduler runs every goroutine that can run, the Unit's function
\* returns and the timers fire.
FairEntry == WF_vars(Progress)

SpecEntry == InitEntry /\ [][NextEntry]_vars /\ FairEntry

\* The main goroutine calls Batch on an Invoker.
NextBatch ==
    /\ \/ /\ \/ \E name \in Names, inputs \in InputSlices, batchSize \in BatchSizes,
                   cancelled \in BOOLEAN : Entry_Batch(name, inputs, batchSize, cancelled)
             \/ Entry_Cancel
             \/ \E b \in Procs : Batch_Store(b)
             \/ Batch_Return
          /\ UNCHANGED <<registryVars, metrics, completed>>
       \/ \E p \in Procs : InvokeStep(p) /\ UNCHANGED entryVars
    /\ UnitObjectsKept
    /\ UNCHANGED <<useVars, execVars, mwVars, moreVars>>

SpecBatch == InitEntry /\ [][NextBatch]_vars


\* One goroutine invokes a Lambda.
LambdaCall(p, l) ==
    \/ \E input \in UnitInputs, cancelled \in BOOLEAN : Lambda_Invoke(p, l, input, cancelled)
    \/ Lambda_CtxDone(p)
    \/ \E ok \in BOOLEAN : Lambda_Attempt(p, ok)
    \/ Lambda_Backoff_Timer(p)
    \/ Lambda_Backoff_Done(p)
    \/ \E duration \in Durations : Lambda_Finish(p, duration)

\* A Lambda is invoked by concurrent goroutines.
NextUnit ==
    /\ \E p \in Procs : LambdaCall(p, 1)
    /\ UNCHANGED <<registryVars, useVars, execVars, invokerVars, entryVars, mwVars, moreVars>>

InitUnitSpec == IdleRegistry /\ IdleUse /\ IdleExec /\ InitUnit /\ IdleInvoker /\ IdleEntry /\ IdleMw /\ IdleMore

SpecUnit == InitUnitSpec /\ [][NextUnit]_vars

\* A Lambda made with WithRetries(r), for r negative, zero or positive, is
\* invoked by concurrent goroutines.
RetriesValues == {-1} \cup (0..MaxRetries)

InitUnitRetries ==
    /\ IdleRegistry /\ IdleUse /\ IdleExec /\ IdleInvoker /\ IdleEntry /\ IdleMw /\ IdleMore
    /\ \E r \in RetriesValues : UnitF(<<WithRetries(r)>>)

SpecUnitRetries == InitUnitRetries /\ [][NextUnit]_vars

\* Lambdas are made, copied with WithOptions and invoked, by one goroutine.
NextUnitCopies ==
    /\ \/ \E opts \in OptionLists : Unit_NewLambda("g", opts)
       \/ \E l \in 1..Len(lambdas), opts \in OptionLists : Unit_WithOptions(l, opts)
       \/ \E l \in 1..Len(lambdas), input \in UnitInputs : Lambda_Invoke(SeqProc, l, input, FALSE)
       \/ \E ok \in BOOLEAN : Lambda_Attempt(SeqProc, ok)
       \/ Lambda_Backoff_Timer(SeqProc)
       \/ \E duration \in Durations : Lambda_Finish(SeqProc, duration)
    /\ UNCHANGED <<registryVars, useVars, execVars, invokerVars, entryVars, mwVars, moreVars>>

SpecUnitCopies == InitUnitSpec /\ [][NextUnitCopies]_vars

\* The chains of the middleware demonstrations: one middleware each, or two
\* of them stacked.
MwChains ==
    {<<RetryMw(n)>> : n \in RetryCounts}
    \cup {<<RateLimitMw>>, <<CacheOutputMw>>, <<RetryMw(1), CacheOutputMw>>,
          <<CircuitBreakerMw>>, <<TimeoutMw>>,
          <<RecoveryMw>>, <<Logger("A")>>, <<RecoveryMw, Logger("A")>>,
          <<Logger("A"), RecoveryMw>>, <<RecoveryMw, RetryMw(1)>>}

MwInputs == {"good", "fail", "boom"} \cup FlakyInputs

UsesKind(c, kind) == \E i \in 1..Len(c.middlewares) : c.middlewares[i].kind = kind

\* a chain has been built with NewChain, around a new RateLimiter or a new
\* CircuitBreaker where it has one
InitMw ==
    /\ IdleRegistry /\ IdleUse /\ IdleUnit /\ IdleInvoker /\ IdleEntry /\ IdleMore
    /\ xchain \in {NewChainValue("T", mws) : mws \in MwChains}
    /\ xinput = "" /\ ctxDone = FALSE /\ xpc = "idle" /\ depth = 0
    /\ frames = <<>> /\ trace = <<>> /\ result = NoResult /\ tcalls = 0
    /\ clock = 0 /\ admitted = <<>> /\ cache = EmptyCache /\ worker = IdleWorker
    /\ limiter \in IF UsesKind(xchain, "RateLimit")
                   THEN {NewRateLimiter(m, w) : m \in 0..MaxRequests, w \in Windows}
                   ELSE {NewRateLimiter(1, 1)}
    /\ breaker \in IF UsesKind(xchain, "CircuitBreaker")
                   THEN {NewCircuitBreaker(m, ResetTimeout) : m \in 1..MaxFailures}
                   ELSE {NewCircuitBreaker(1, 1)}

\* The chain is executed again and again by one goroutine, while time passes;
\* a call of Execute begins when the goroutine of the last Timeout has ended.
NextMw ==
    /\ \/ /\ \/ /\ ~WorkerActive
                /\ \E input \in MwInputs, cancelled \in BOOLEAN :
                      Chain_Execute(input, cancelled)
             \/ Cancel
             \/ Enter_final
             \/ Enter_Logger
             \/ Return_Logger
             \/ Enter_Retry
             \/ Return_Retry
             \/ Retry_Backoff_Timer
             \/ Retry_Backoff_Done
             \/ Execute_Return
          /\ UNCHANGED mwVars
       \/ Tick /\ UNCHANGED execVars
       \/ Enter_RateLimit
       \/ Return_RateLimit
       \/ Enter_CacheOutput
       \/ Return_CacheOutput
       \/ Enter_CircuitBreaker
       \/ Return_CircuitBreaker
       \/ Enter_Recovery
       \/ Return_Recovery
       \/ Panic_Unwind
       \/ Recovery_Recover
       \/ Panic_Crash
       \/ Enter_Timeout
       \/ Timeout_Deadline
       \/ Worker_Next
       \/ Worker_Panic
       \/ Worker_Select
       \/ Timeout_Select
       \/ Timeout_Wake
    /\ UNCHANGED <<registryVars, useVars, unitVars, invokerVars, entryVars, moreVars>>

SpecMw == InitMw /\ [][NextMw]_vars

\* Chains with Timeout as their last middleware, alone or inside Recovery.
TimeoutChains == {<<TimeoutMw>>, <<RecoveryMw, TimeoutMw>>}
TimeoutInputs == {"good", "fail", "boom"}

InitTimeout ==
    /\ IdleRegistry /\ IdleUse /\ IdleUnit /\ IdleInvoker /\ IdleEntry /\ IdleMw /\ IdleMore
    /\ xchain \in {NewChainValue("T", mws) : mws \in TimeoutChains}
    /\ xinput = "" /\ ctxDone = FALSE /\ xpc = "idle" /\ depth = 0
    /\ frames = <<>> /\ trace = <<>> /\ result = NoResult /\ tcalls = 0

NextTimeout ==
    /\ \/ /\ \/ /\ ~WorkerActive
                /\ \E input \in TimeoutInputs, cancelled \in BOOLEAN :
                      Chain_Execute(input, cancelled)
             \/ Execute_Return
          /\ UNCHANGED mwVars
       \/ Enter_Recovery
       \/ Return_Recovery
       \/ Enter_Timeout
       \/ Timeout_Deadline
       \/ Worker_Next
       \/ Worker_Panic
       \/ Worker_Select
       \/ Timeout_Select
       \/ Timeout_Wake
    /\ UNCHANGED <<registryVars, useVars, unitVars, invokerVars, entryVars, moreVars>>

\* The scheduler runs every goroutine that can run and the timer of the
\* deadline fires; whether next ever returns is up to next.
FairTimeout ==
    /\ WF_vars(Timeout_Deadline /\ UNCHANGED <<registryVars, useVars, unitVars, invokerVars, entryVars, moreVars>>)
    /\ WF_vars(Worker_Select /\ UNCHANGED <<registryVars, useVars, unitVars, invokerVars, entryVars, moreVars>>)
    /\ WF_vars(Timeout_Select /\ UNCHANGED <<registryVars, useVars, unitVars, invokerVars, entryVars, moreVars>>)
    /\ WF_vars(Timeout_Wake /\ UNCHANGED <<registryVars, useVars, unitVars, invokerVars, entryVars, moreVars>>)

SpecTimeout == InitTimeout /\ [][NextTimeout]_vars /\ FairTimeout

\* Several goroutines call Allow of one RateLimiter while time passes.
InitRateConc ==
    /\ IdleRegistry /\ IdleUse /\ IdleExec /\ IdleUnit /\ IdleInvoker /\ IdleEntry /\ IdleMore
    /\ clock = 0 /\ admitted = <<>> /\ cache = EmptyCache /\ worker = IdleWorker
    /\ breaker = NewCircuitBreaker(1, 1)
    /\ limiter \in {NewRateLimiter(m, w) : m \in 1..MaxRequests, w \in Windows}

NextRateConc ==
    /\ \/ Tick /\ UNCHANGED allow
       \/ /\ \E p \in Procs :
                \/ Allow_Begin(p)
                \/ Allow_Prune(p)
                \/ Allow_Check(p)
                \/ Allow_Append(p)
                \/ Allow_Store(p)
          /\ UNCHANGED <<clock, cache, breaker, worker>>
    /\ UNCHANGED <<registryVars, useVars, execVars, unitVars, invokerVars, entryVars, lwm, backoff>>

SpecRateConc == InitRateConc /\ [][NextRateConc]_vars

\* NewLambdaWithMiddleware(name, handler, Metrics(passed)), invoked by one caller.
InitLwm ==
    /\ IdleRegistry /\ IdleUse /\ IdleUnit /\ IdleInvoker /\ IdleEntry /\ IdleMw /\ IdleMore
    /\ xchain = NewChainValue("T", <<MetricsMw>>)
    /\ xinput = "" /\ ctxDone = FALSE /\ xpc = "idle" /\ depth = 0
    /\ frames = <<>> /\ trace = <<>> /\ result = NoResult /\ tcalls = 0

NextLwm ==
    /\ \/ \E input \in Inputs, cancelled \in BOOLEAN :
             LambdaWithMiddleware_Invoke(input, cancelled)
       \/ Enter_Metrics
       \/ Enter_final /\ UNCHANGED lwm
       \/ Return_Metrics
       \/ LambdaWithMiddleware_Return
    /\ UNCHANGED <<registryVars, useVars, unitVars, invokerVars, entryVars, mwVars, allow, backoff>>

SpecLwm == InitLwm /\ [][NextLwm]_vars

\* Retry(maxRetries) around a function that fails every time.
InitBackoff ==
    /\ IdleRegistry /\ IdleUse /\ IdleExec /\ IdleUnit /\ IdleInvoker /\ IdleEntry /\ IdleMw
    /\ allow = [p \in Procs |-> IdleAllow]
    /\ lwm = [passed |-> ZeroMetrics, own |-> ZeroMetrics, n |-> 0]
    /\ backoff \in {[maxRetries |-> m, attempt |-> 0, wait |-> Zero64] : m \in 1..MaxAttempt}

NextBackoff ==
    /\ Retry_NextAttempt
    /\ UNCHANGED <<registryVars, useVars, execVars, unitVars, invokerVars, entryVars, mwVars, allow, lwm>>

SpecBackoff == InitBackoff /\ [][NextBackoff]_vars

(***************************************************************************)
(* Registry claims.                                                        *)
(***************************************************************************)
\* the step of process p is the return of its call of op
Returns(p, op) == call[p].op = op /\ call[p].pc # "done" /\ call'[p].pc = "done"

\* C1: Register of a Lambda whose name is already among the Lambdas of the
\* registry returns the duplicate error and changes nothing: the lambdas and
\* meta maps are as before, and Get(name) still returns the first Lambda.
C1_DuplicateRegisterFails ==
    [][\A p \in Procs :
          (AtMethod(p, "RegisterLambda") /\ Returns(p, "RegisterLambda")
             /\ call[p].name \in DOMAIN regs[call[p].reg].lambdas)
          => /\ call'[p].ret.err = ErrDup
             /\ regs'[call[p].reg].lambdas = regs[call[p].reg].lambdas
             /\ regs'[call[p].reg].meta = regs[call[p].reg].meta
             /\ regs' = regs /\ globalRegistries' = globalRegistries
             /\ Registry_Get(regs'[call[p].reg], call[p].name)
                  = Registry_Get(regs[call[p].reg], call[p].name)
             /\ Registry_Get(regs'[call[p].reg], call[p].name).unit # call[p].unit]_vars

\* a second registration of a name has been refused
C1_Witness ==
    \E p \in Procs : /\ call[p].pc = "done" /\ call[p].op = "RegisterLambda"
                     /\ call[p].ret.err = ErrDup
                     /\ Registry_Get(regs[call[p].reg], call[p].name).found

\* what Get and List through type pair tp return in the current state
View(tp) ==
    LET reg == globalRegistries[registryKey(tp)] IN
    IF reg = NoReg THEN [panics |-> FALSE, lambdas |-> EmptyMap, list |-> {<<>>}]
    ELSE IF regs[reg].type # tp THEN [panics |-> TRUE, lambdas |-> EmptyMap, list |-> {}]
    ELSE [panics |-> FALSE, lambdas |-> regs[reg].lambdas, list |-> Registry_List(regs[reg])]

\* C2: a name can be registered under each type pair independently of the other
\* type pairs; a lookup through a type pair returns only Lambdas registered
\* through it; and no call on one type pair changes what Get and List return
\* for another.
C2_TypePairIsolation ==
    [][\A p \in Procs :
          /\ (Returns(p, "RegisterLambda") /\ call[p].name \notin live[call[p].tp])
                => call'[p].ret.err = ErrNil
          /\ (Returns(p, "GetLambda") /\ call'[p].ret.found)
                => call'[p].ret.unit.type = call[p].tp
          /\ call[p].pc # "idle"
                => \A tp \in TypePairs \ {call[p].tp} : View(tp)' = View(tp)]_vars

\* C3: a Get of a name that was registered through the same type pair, with no
\* Unregister or Clear since, reports found and returns a Lambda of that name.
C3_GetAfterRegister ==
    [][\A p \in Procs :
          (Returns(p, "GetLambda") /\ call[p].name \in live[call[p].tp])
          => /\ call'[p].ret.found
             /\ Lambda_GetName(call'[p].ret.unit) = call[p].name
             /\ call'[p].ret.unit.type = call[p].tp]_vars

\* a Get has found a registered name
C3_Witness ==
    \E p \in Procs : /\ call[p].pc = "done" /\ call[p].op = "GetLambda"
                     /\ call[p].name \in live[call[p].tp]
                     /\ call[p].ret.found /\ call[p].ret.unit.name = call[p].name

\* what a GetLambda call made now would report
Retrievable(tp, name) ==
    LET reg == globalRegistries[registryKey(tp)] IN
    /\ reg # NoReg
    /\ regs[reg].type = tp
    /\ Registry_Get(regs[reg], name).found

\* C4: under concurrent RegisterLambda and GetLambda calls on one type pair no
\* registration is lost (a name whose RegisterLambda returned nil can be
\* retrieved), and of the registrations of one name at most one returns nil.
C4_ConcurrentRegistrationSafe ==
    /\ \A p \in Procs :
          (call[p].pc = "done" /\ call[p].op = "RegisterLambda" /\ call[p].ret.err = ErrNil)
          => Retrievable(call[p].tp, call[p].name)
    /\ \A p, q \in Procs :
          (/\ p # q
           /\ call[p].pc = "done" /\ call[p].op = "RegisterLambda"
           /\ call[q].pc = "done" /\ call[q].op = "RegisterLambda"
           /\ call[p].tp = call[q].tp /\ call[p].name = call[q].name)
          => ~(call[p].ret.err = ErrNil /\ call[q].ret.err = ErrNil)

(***************************************************************************)
(* Chain claims.                                                           *)
(***************************************************************************)
NumMw == Len(xchain.middlewares)
Ran == SelectSeq(trace, LAMBDA e : e.ev # "next")
NextCalls(i) == Cardinality({k \in DOMAIN trace : trace[k].ev = "next" /\ trace[k].index = i})
Entered(i) == \E k \in DOMAIN trace : trace[k].ev = "enter" /\ trace[k].index = i
Nested ==
    [k \in 1..NumMw |-> [ev |-> "enter", index |-> k - 1, name |-> xchain.middlewares[k].name]]
    \o <<[ev |-> "T", index |-> NumMw, name |-> xchain.final]>>
    \o [k \in 1..NumMw |-> [ev |-> "exit", index |-> NumMw - k,
                            name |-> xchain.middlewares[NumMw - k + 1].name]]

\* C5: when Execute has returned and every middleware of the chain called next
\* exactly once, what ran is: the part before next of each middleware in list
\* order, then the final function, then the part after next of each
\* middleware in reverse list order (for [A, B]: A, B, T, B, A).
C5_ChainOrder ==
    (xpc = "done" /\ \A i \in 0..(NumMw - 1) : NextCalls(i) = 1) => Ran = Nested

C5_Witness ==
    /\ xpc = "done"
    /\ xchain.middlewares = <<Logger("A"), Logger("B")>>
    /\ Ran = <<[ev |-> "enter", index |-> 0, name |-> "A"],
               [ev |-> "enter", index |-> 1, name |-> "B"],
               [ev |-> "T", index |-> 2, name |-> "T"],
               [ev |-> "exit", index |-> 1, name |-> "B"],
               [ev |-> "exit", index |-> 0, name |-> "A"]>>

\* middleware k of the executed chain returned without calling next
ShortCircuited(k) ==
    /\ xchain.middlewares[k].kind = "ValidateInput"
    /\ validator(xinput) # ErrNil
    /\ Entered(k - 1)
NothingLaterRan(k) ==
    /\ tcalls = 0
    /\ \A j \in DOMAIN trace : trace[j].index <= k - 1
ShortCircuitResult == [output |-> Zero, err |-> "input validation failed: " \o validator(xinput)]
PassesOn(mw) == mw.kind \in {"Logger", "ValidateInput"}

UseCall == cret' # cret /\ cret'.op \in {"Chain.Use", "Lambda.Use"}
UseReceiver == IF cret'.op = "Chain.Use" THEN cret'.recv ELSE lwms[cret'.recv].chain
UseResult == IF cret'.op = "Chain.Use" THEN cret'.ret ELSE lwms'[cret'.ret].chain

\* C7: Use on a Chain or on a LambdaWithMiddleware returns a new object whose
\* middleware list is the receiver's list followed by the added middlewares,
\* with the receiver's final function (and name); every object that existed
\* before the call, the receiver included, is as it was.
C7_UseReturnsNewChain ==
    [][UseCall =>
          /\ UseResult \notin DOMAIN chains
          /\ UseResult \in DOMAIN chains'
          /\ chains'[UseResult].middlewares = chains[UseReceiver].middlewares \o cret'.args
          /\ chains'[UseResult].final = chains[UseReceiver].final
          /\ \A c \in DOMAIN chains :
                chains'[c] = chains[c] /\ buildChain(chains'[c], 0) = buildChain(chains[c], 0)
          /\ \A l \in DOMAIN lwms : lwms'[l] = lwms[l]
          /\ cret'.op = "Lambda.Use" =>
                /\ cret'.ret \notin DOMAIN lwms
                /\ lwms'[cret'.ret].name = lwms[cret'.recv].name]_vars

C7_Witness ==
    /\ cret.op = "Lambda.Use"
    /\ cret.args = <<Logger("B")>>
    /\ cret.ret # cret.recv
    /\ lwms[cret.recv].chain # lwms[cret.ret].chain
    /\ chains[lwms[cret.recv].chain].middlewares = <<Logger("A")>>
    /\ chains[lwms[cret.ret].chain].middlewares = <<Logger("A"), Logger("B")>>

(***************************************************************************)
(* Invoker claims.                                                         *)
(***************************************************************************)
Executing == {p \in Procs : invs[p].pc = "running"}

\* C8: while a concurrency limit k > 0 is configured, at most k calls made
\* through the Invoker are inside the Unit at the same time.
C8_AtMostKExecuting ==
    semaphore # NilChan => Cardinality(Executing) <= sems[semaphore].cap

C8_Witness ==
    /\ semaphore # NilChan
    /\ sems[semaphore].cap = 1
    /\ \E p, q \in Procs :
          /\ invs[p].pc = "running" /\ invs[p].held = semaphore
          /\ invs[q].pc = "blocked" /\ invs[q].ch = semaphore /\ invs[q].woken = ""

\* the call has taken a slot and has not given it back: it is about to call
\* the Unit, inside it, or about to run the deferred release
HoldsSlot(p) ==
    \/ invs[p].defer /\ invs[p].pc \in {"call", "running", "release"}
    \/ invs[p].pc = "blocked" /\ invs[p].woken = "send"

SlotAccounting ==
    /\ semaphore # NilChan =>
          sems[semaphore].len = Cardinality({p \in Procs : HoldsSlot(p)})
    /\ \A c \in DOMAIN sems : sems[c].len = Cardinality({p \in Procs : invs[p].held = c})
    /\ \A p \in Procs : invs[p].held # NilChan <=> HoldsSlot(p)
    /\ (\A p \in Procs : ~InFlight(p)) => \A c \in DOMAIN sems : sems[c].len = 0

ReleasesItsSlot(p) ==
    /\ (invs[p].pc = "running" /\ invs'[p].pc # "running" /\ invs[p].defer)
          => invs'[p].pc = "release"
    /\ (invs[p].pc = "release" /\ invs'[p].pc = "done") =>
          /\ invs'[p].held = NilChan
          /\ \A c \in DOMAIN sems :
                sems'[c].len = IF c = invs[p].held /\ Parked(c) = {}
                               THEN sems[c].len - 1 ELSE sems[c].len
          /\ \A q \in Procs \ {p} : invs[q].held # NilChan => invs'[q].held = invs[q].held

\* C9: a call of Invoke that took a slot gives back that slot when the Unit
\* call has returned, whether with nil, the function's error or the context's
\* error; the occupied slots are those of the calls between taking the slot
\* and giving it back, around the Unit call, and there is none when no call
\* is in flight.
C9_SlotReleased ==
    /\ []SlotAccounting
    /\ [][\A p \in Procs : ReleasesItsSlot(p)]_vars

C9_Witness ==
    /\ semaphore # NilChan
    /\ sems[semaphore].len = 1
    /\ \E p, q \in Procs :
          /\ invs[p].pc = "done" /\ invs[p].defer /\ invs[p].called
          /\ invs[p].ret = [result |-> LambdaResult(ZeroOutput, ErrFn, UnitDuration, TRUE),
                            err |-> ErrFn]
          /\ invs[p].held = NilChan
          /\ invs[q].pc = "running" /\ invs[q].held = semaphore

WokenByCtx(p) == invs[p].pc = "blocked" /\ invs[p].woken = "done"
CtxErrReturned(p) ==
    /\ invs[p].pc = "done"
    /\ invs[p].ret = [result |-> NilResult, err |-> ErrCtx]
    /\ ~invs[p].called
    /\ invs[p].held = NilChan

\* C10: a call of Invoke that waits for a slot does not stay waiting once its
\* context is done: it returns nil and the context's error, without having
\* called the Unit, and without a slot taken or given back on its behalf.
C10_BlockedInvokeUnblocks ==
    /\ [](\A p \in Procs :
            /\ ~(invs[p].pc = "blocked" /\ invs[p].woken = "" /\ invs[p].ctxDone)
            /\ WokenByCtx(p) => ~invs[p].called /\ invs[p].held = NilChan)
    /\ [][\A p \in Procs :
            (WokenByCtx(p) /\ invs'[p] # invs[p]) => (CtxErrReturned(p)' /\ sems' = sems)]_vars
    /\ \A p \in Procs : WokenByCtx(p) ~> CtxErrReturned(p)

C10_Witness ==
    /\ semaphore # NilChan
    /\ sems[semaphore].len = sems[semaphore].cap
    /\ \E p, q \in Procs :
          /\ CtxErrReturned(p) /\ invs[p].ch = semaphore /\ invs[p].ctxDone
          /\ invs[q].pc = "running" /\ invs[q].held = semaphore

(***************************************************************************)
(* Lambda claims.                                                          *)
(***************************************************************************)
Returned(p) == linv[p].pc = "done"
RetriesOf(p) == lambdas[linv[p].l].options.Retries

\* C13: Lambda.Invoke returns a LambdaResult that is not nil, whose Error is
\* the returned error, whose Output is the zero value when the call failed,
\* and whose Duration and Timestamp are set.
C13_ResultAlwaysReturned ==
    \A p \in Procs :
        Returned(p) =>
            /\ linv[p].result # NilResult
            /\ linv[p].result.Error = linv[p].err
            /\ linv[p].err # ErrNil => linv[p].result.Output = ZeroOutput
            /\ linv[p].err = ErrNil => linv[p].result.Output = Fn(linv[p].input)
            /\ linv[p].result.Duration \in Durations
            /\ linv[p].result.Timestamp

C13_Witness ==
    \E p \in Procs :
        /\ Returned(p)
        /\ linv[p].calls = 2
        /\ linv[p].err = ErrAttempt(2)
        /\ linv[p].result = LambdaResult(ZeroOutput, ErrAttempt(2), 2, TRUE)

\* C14: with Retries = r >= 0 the function is called at most r + 1 times in one
\* Invoke; a successful call is the last one and Invoke returns its output;
\* with the context live to the end, a failed Invoke has made r + 1 calls
\* and returns the error of the last one.
C14_AttemptsBounded ==
    \A p \in Procs :
        linv[p].pc # "idle" =>
            /\ linv[p].calls <= RetriesOf(p) + 1
            /\ linv[p].succeeded =>
                  /\ linv[p].pc \in {"finish", "done"}
                  /\ linv[p].err = ErrNil /\ linv[p].output = Fn(linv[p].input)
            /\ (linv[p].pc \in {"finish", "done"} /\ ~linv[p].succeeded /\ ~linv[p].ctxDone) =>
                  /\ linv[p].calls = RetriesOf(p) + 1
                  /\ linv[p].err = ErrAttempt(RetriesOf(p) + 1)

C14_Witness ==
    \E p \in Procs :
        /\ Returned(p) /\ ~linv[p].ctxDone
        /\ RetriesOf(p) = 1
        /\ linv[p].calls = 2
        /\ linv[p].err = ErrAttempt(2)

\* C15: with the context done after a failed attempt, or during the wait
\* before the next attempt, the function is not called again and Invoke
\* returns the context's error.
C15_RetryStopsOnContextDone ==
    [][\A p \in Procs :
          (linv[p].ctxDone /\ linv'[p] # linv[p]) =>
              /\ (linv[p].pc = "backoff") =>
                    /\ linv'[p].pc = "finish"
                    /\ linv'[p].err = ErrCtx
                    /\ linv'[p].calls = linv[p].calls
              /\ (linv[p].pc = "attempt" /\ ~linv'[p].succeeded) =>
                    /\ linv'[p].pc = "finish"
                    /\ linv'[p].err = ErrCtx
              /\ (linv[p].pc = "finish" /\ linv[p].err = ErrCtx) =>
                    /\ linv'[p].pc = "done"
                    /\ linv'[p].result # NilResult
                    /\ linv'[p].result.Error = ErrCtx]_vars

C15_Witness ==
    \E p \in Procs :
        /\ Returned(p) /\ linv[p].ctxDone
        /\ RetriesOf(p) = 1
        /\ linv[p].calls = 1
        /\ linv[p].lastErr = ErrAttempt(1)
        /\ linv[p].err = ErrCtx

\* C16: for a metrics-enabled Lambda invoked by concurrent goroutines, when n
\* calls have returned of which k with an error, GetMetrics gives
\* TotalInvocations = n, ErrorInvocations = k, SuccessInvocations = n - k;
\* the total is the sum of the two, and the average is the total duration
\* divided by the total; a call counts once whatever its attempts.
C16_MetricsConsistent ==
    \A l \in DOMAIN lambdas :
        lambdas[l].options.EnableMetrics =>
            LET g == Lambda_GetMetrics(l)
                c == completed[lambdas[l].metrics]
            IN /\ g.TotalInvocations = c.n
               /\ g.ErrorInvocations = c.k
               /\ g.SuccessInvocations = c.n - c.k
               /\ g.TotalInvocations = g.SuccessInvocations + g.ErrorInvocations
               /\ g.TotalInvocations > 0 =>
                     g.AverageDuration = g.TotalDuration \div g.TotalInvocations

C16_Witness ==
    /\ lambdas[1].options.EnableMetrics
    /\ Lambda_GetMetrics(1) = [TotalInvocations |-> 2, SuccessInvocations |-> 1,
                               ErrorInvocations |-> 1, TotalDuration |-> 3,
                               AverageDuration |-> 1]
    /\ \E p, q \in Procs : p # q /\ Returned(p) /\ Returned(q) /\ linv[p].calls = 2

RECURSIVE Root(_)
Root(l) == IF origin[l] = NoLambda THEN l ELSE Root(origin[l])
Counted(p) == linv[p].pc = "finish" /\ linv'[p].pc = "done"
ObjectsKept == \A l \in DOMAIN lambdas : lambdas'[l] = lambdas[l]
SharedRecord ==
    \A l, k \in DOMAIN lambdas : (lambdas[l].metrics = lambdas[k].metrics) <=> (Root(l) = Root(k))
SeenBy(l) == Lambda_GetMetrics(l)'.TotalInvocations = Lambda_GetMetrics(l).TotalInvocations + 1

NotRegistered(name) == name \notin live[InvTypePair]
LeavesGet(p) == invs[p].pc = "get" /\ invs'[p].pc # "get"
NotFoundReturned(p) ==
    invs[p].pc = "done" /\ invs[p].ret.err = ErrNotFound(invs[p].name)

\* C11: Invoke for a name that is not registered for the type pair of the
\* Invoker returns nil and the not-found error in its first step: the Unit's
\* function is not called, no token is put in the semaphore and no
\* statistics change.
C11_NotFoundFailsAtOnce ==
    /\ [][\A p \in Procs :
            (LeavesGet(p) /\ NotRegistered(invs[p].name)) =>
                /\ invs'[p].pc = "done"
                /\ invs'[p].ret = [result |-> NilResult, err |-> ErrNotFound(invs[p].name)]
                /\ sems' = sems /\ semaphore' = semaphore
                /\ metrics' = metrics]_vars
    /\ [](\A p \in Procs :
            NotFoundReturned(p) =>
                /\ ~invs[p].called
                /\ invs[p].held = NilChan /\ ~invs[p].defer
                /\ invs[p].unit = NoLambda)

C11_Witness ==
    /\ NotFoundReturned(SeqProc)
    /\ invs[SeqProc].name = "g"
    /\ "f" \in live[InvTypePair]
    /\ semaphore # NilChan /\ sems[semaphore].len = 0
    /\ \A m \in DOMAIN metrics : metrics[m] = ZeroMetrics

FailedEntry(ops) ==
    /\ entry.op \in ops
    /\ entry.pc = "returned"
    /\ entry.ret.err # ErrNil

\* C12: Invoke, Pipeline, Retry and Timeout return a result that is not nil
\* whenever they return an error.
C12_ResultWithEveryError ==
    /\ FailedEntry({"Invoke", "Timeout", "Retry"}) => entry.ret.result # NilResult
    /\ FailedEntry({"Pipeline"}) => entry.ret.results # NilSlice

\* the values sent on the channel of InvokeAsync so far, received or not
AsyncValues == SelectSeq(entry.got, LAMBDA v : v # NilResult) \o entry.chan.buf
AsyncOutcome == invs[entry.p].ret
AsyncDelivered ==
    /\ entry.op = "InvokeAsync"
    /\ entry.chan.closed
    /\ Len(AsyncValues) = 1

\* C18: the channel of InvokeAsync carries at most one value, which is not
\* nil: the Unit's result if Invoke returned no error, else a shell with the
\* error; the channel is closed only after the value was sent, a receive
\* gives nil only after the value; and every InvokeAsync leads to the value
\* being sent and the channel closed.
C18_AsyncDeliversOne ==
    /\ [](entry.op = "InvokeAsync" =>
            /\ Len(AsyncValues) <= 1
            /\ entry.chan.closed => Len(AsyncValues) = 1
            /\ \A k \in DOMAIN entry.got : entry.got[k] = NilResult => k = 2
            /\ \A k \in DOMAIN AsyncValues :
                  /\ AsyncValues[k] # NilResult
                  /\ AsyncValues[k].Error = AsyncOutcome.err
                  /\ AsyncOutcome.err = ErrNil => AsyncValues[k] = AsyncOutcome.result
                  /\ AsyncOutcome.err # ErrNil => AsyncValues[k].Output = ZeroOutput)
    /\ (entry.op = "InvokeAsync" /\ entry.pc = "running") ~> AsyncDelivered

C18_Witness ==
    /\ AsyncDelivered
    /\ entry.got = <<ErrorShell(ErrNotFound("g")), NilResult>>

MultiReturned == entry.op = "InvokeMultiple" /\ entry.pc = "returned"
MultiOutcome(nm) == invs[ProcFor(nm)].ret
MultiEntryTagged(nm) ==
    /\ entry.ret[nm] # NilResult
    /\ entry.ret[nm].Error = MultiOutcome(nm).err
    /\ NotRegistered(nm) => entry.ret[nm].Error = ErrNotFound(nm)
    /\ MultiOutcome(nm).err = ErrNil =>
          /\ entry.ret[nm] = MultiOutcome(nm).result
          /\ entry.ret[nm].Output = Fn(entry.requests[nm])

\* C19: when InvokeMultiple has returned, the call of every request has
\* returned, and the map has an entry that is not nil for every request name
\* and for no other name: the error of that request's call, or its result
\* with the output of its own input; an entry once stored is
\* never changed or removed, and every InvokeMultiple returns, with fewer
\* slots than requests too.
C19_MultipleAllReturned ==
    /\ [](MultiReturned =>
            /\ DOMAIN entry.ret = DOMAIN entry.requests
            /\ \A nm \in DOMAIN entry.requests :
                  /\ invs[ProcFor(nm)].pc = "done" /\ invs[ProcFor(nm)].name = nm
                  /\ MultiEntryTagged(nm))
    /\ [][(entry.op = "InvokeMultiple" /\ entry'.op = "InvokeMultiple" /\ entry.pc = "wait") =>
             \A nm \in DOMAIN entry.results :
                 /\ nm \in DOMAIN entry'.results
                 /\ entry'.results[nm] = entry.results[nm]]_vars
    /\ (entry.op = "InvokeMultiple" /\ entry.pc = "wait") ~> MultiReturned

C19_Witness ==
    /\ MultiReturned
    /\ DOMAIN entry.requests = {"f", "g"}
    /\ semaphore # NilChan /\ sems[semaphore].cap < Cardinality(DOMAIN entry.requests)
    /\ entry.ret["f"].Error = ErrFn
    /\ entry.ret["g"] = LambdaResult(Fn(entry.requests["g"]), ErrNil, UnitDuration, TRUE)

PipelineStarts ==
    /\ entry.op = "Pipeline" /\ entry'.op = "Pipeline"
    /\ invs'[SeqProc].pc = "get" /\ invs[SeqProc].pc # "get"
PipelineReturned == entry.op = "Pipeline" /\ entry.pc = "returned"

\* C20: Pipeline hands the inputs to Invoke in their order, each once; a
\* call of Invoke starts only when the calls for all earlier inputs have
\* returned and their results are stored; when Pipeline returns no error it
\* returns len(inputs) results, the i-th being the result for the i-th input.
C20_PipelineInOrder ==
    /\ [](entry.op = "Pipeline" =>
            /\ Len(entry.invoked) <= Len(entry.inputs)
            /\ entry.invoked = SubSeq(entry.inputs, 1, Len(entry.invoked))
            /\ (entry.pc = "returned" /\ entry.ret.err = ErrNil) =>
                  /\ entry.invoked = entry.inputs
                  /\ Len(entry.ret.results) = Len(entry.inputs)
                  /\ \A k \in DOMAIN entry.inputs :
                        entry.ret.results[k] =
                            LambdaResult(Fn(entry.inputs[k]), ErrNil, UnitDuration, TRUE))
    /\ [][PipelineStarts =>
             /\ \A p \in Procs : ~InFlight(p)
             /\ Len(entry.invoked) = entry.i
             /\ invs'[SeqProc].input = entry.inputs[entry.i + 1]
             /\ \A k \in 1..entry.i :
                   /\ entry.results[k] # NilResult
                   /\ entry.results[k].Output = Fn(entry.inputs[k])]_vars

C20_Witness ==
    /\ PipelineReturned
    /\ entry.inputs = <<2, 1>>
    /\ entry.ret.err = ErrNil
    /\ entry.ret.results[1].Output = 4 /\ entry.ret.results[2].Output = 2

FunctionFailedAt(i) ==
    /\ PipelineReturned
    /\ entry.i = i
    /\ invs[SeqProc].called
    /\ invs[SeqProc].ret.err = ErrFn

\* C21: when the Unit's function fails for input i after succeeding for the
\* inputs before it, Pipeline returns the i results so far followed by the
\* failing result, i + 1 in all, and the function's error.
C21_PipelineReturnsFailingResult ==
    \A i \in 0..Cardinality(InputSlices) :
        FunctionFailedAt(i) =>
            /\ Len(entry.ret.results) = i + 1
            /\ entry.ret.results[i + 1].Error = ErrFn
            /\ entry.ret.err = ErrFn

\* C22: Retry for a name that is not registered looks the name up once and
\* returns the not-found error without waiting for the delay.
C22_NotFoundNotRetried ==
    (entry.op = "Retry" /\ NotRegistered(entry.name)) =>
        /\ entry.pc # "delay"
        /\ entry.attempt <= 1
        /\ entry.pc = "returned" => entry.ret.err = ErrNotFound(entry.name)

(***************************************************************************)
(* Registry claims: Build, Unregister and Clear.                           *)
(***************************************************************************)
Returned_(p, op) == call[p].op = op /\ call[p].pc = "done"
InList(r, name) == \E names \in Registry_List(r) : \E k \in DOMAIN names : names[k] = name

\* C24: when Build(name) has returned no error, with a constructor that
\* builds a Lambda called name, Get(name) returns the Lambda that Build
\* returned.
C24_BuildReturnsRegistered ==
    \A p \in Procs :
        (/\ Returned_(p, "BuildLambda")
         /\ call[p].ret.err = ErrNil
         /\ Lambda_GetName(call[p].ret.unit) = call[p].name)
        => Registry_Get(regs[call[p].reg], call[p].name)
              = [unit |-> call[p].ret.unit, found |-> TRUE]

\* C25: when Unregister(name) has returned true, Get(name) reports not found
\* and List() does not contain name.
C25_UnregisteredIsGone ==
    \A p \in Procs :
        (Returned_(p, "UnregisterLambda") /\ call[p].ret.found)
        => /\ ~Registry_Get(regs[call[p].reg], call[p].name).found
           /\ ~InList(regs[call[p].reg], call[p].name)

(***************************************************************************)
(* Middleware claims.                                                      *)
(***************************************************************************)
\* a step of the handler that is entered or has been returned to
HandlerSteps == <<xpc, depth, frames>>' # <<xpc, depth, frames>>
OnlyMw(kind) == Len(xchain.middlewares) = 1 /\ xchain.middlewares[1].kind = kind
RetryCount == xchain.middlewares[1].maxRetries
AllFailed(n) == \A k \in 0..(n - 1) : FinalAt(xinput, k).err # ErrNil
CtxError == [output |-> Zero, err |-> ErrCtx]

\* Retry with the context done: its next step after a failed attempt or in
\* the wait ends the loop with the context's error, and next is not called again
RetryAborts ==
    (/\ ctxDone
     /\ \/ Returning("Retry") /\ result.err # ErrNil
        \/ xpc = "backoff"
     /\ execVars' # execVars)
    => (result' = CtxError /\ xpc' = "ret" /\ tcalls' = tcalls)

\* C23: Retry(n) calls next until its first success and at most n + 1 times;
\* when all n + 1 calls fail it returns the last error wrapped with n; with
\* the context done it returns the context's error instead of going on.
C23_RetryMiddleware ==
    /\ []((OnlyMw("Retry") /\ ~FinalPanics(xinput)) =>
            /\ tcalls <= RetryCount + 1
            /\ xpc = "done" =>
                  \/ /\ result = FinalAt(xinput, tcalls - 1)
                     /\ result.err = ErrNil
                     /\ AllFailed(tcalls - 1)
                  \/ /\ result = RetryExhausted(RetryCount, FinalAt(xinput, RetryCount).err)
                     /\ tcalls = RetryCount + 1
                     /\ AllFailed(tcalls)
                  \/ /\ result = CtxError
                     /\ ctxDone
                     /\ AllFailed(tcalls)
            /\ (xpc = "done" /\ xinput = "fail2" /\ RetryCount = 3 /\ ~ctxDone) =>
                  (result.err = ErrNil /\ tcalls = 3))
    /\ [][OnlyMw("Retry") => RetryAborts]_vars

\* Retry(3) around a function that fails twice has returned its success
C23_Witness ==
    /\ OnlyMw("Retry") /\ RetryCount = 3
    /\ xpc = "done" /\ xinput = "fail2"
    /\ result = [output |-> "T:fail2", err |-> ErrNil]
    /\ tcalls = 3

\* how many of the calls let through so far were made within the window
\* that ends now
AdmittedInWindow ==
    Cardinality({i \in 1..Len(admitted) : clock - admitted[i] < limiter.window})
RecordedInWindow(rl) == SelectSeq(rl.requests, LAMBDA t : clock - t < rl.window)
Rejected == [output |-> Zero, err |-> ErrRateLimit]

\* C26: in sequential use RateLimit lets a call through exactly when fewer
\* than maxRequests of the calls let through before are within the last
\* window; a refused call returns an error, does not run next and is not
\* recorded.  So no more than maxRequests calls made at one time get through.
C26_RateLimitWindow ==
    /\ [][(OnlyMw("RateLimit") /\ Entering("RateLimit") /\ HandlerSteps) =>
            IF AdmittedInWindow < limiter.maxRequests
            THEN /\ admitted' = Append(admitted, clock)
                 /\ xpc' = "call" /\ depth' = depth + 1
                 /\ limiter'.requests = Append(RecordedInWindow(limiter), clock)
            ELSE /\ admitted' = admitted
                 /\ xpc' = "ret" /\ result' = Rejected
                 /\ tcalls' = tcalls
                 /\ limiter'.requests = RecordedInWindow(limiter)]_vars
    /\ [](OnlyMw("RateLimit") =>
            /\ (xpc \in {"ret", "done"} /\ result = Rejected) => tcalls = 0
            /\ \A t \in 0..MaxClock :
                  Cardinality({i \in 1..Len(admitted) : admitted[i] = t})
                      <= limiter.maxRequests)

\* RateLimit(2, 1): two calls got through at time 0 and two more at time 1,
\* and the call after them was refused
C26_Witness ==
    /\ OnlyMw("RateLimit")
    /\ limiter.maxRequests = 2 /\ limiter.window = 1
    /\ admitted = <<0, 0, 1, 1>>
    /\ xpc = "done" /\ result = Rejected

\* C29: CacheOutput returns a cached value without calling next; on a miss
\* it calls next and stores the output if next returned no error, and
\* nothing otherwise.  What is cached for an input stays, so that the calls
\* after a success return its value and do not run the final function.
C29_CacheOutput ==
    /\ [][(Entering("CacheOutput") /\ HandlerSteps) =>
            /\ cache' = cache
            /\ IF xinput \in DOMAIN cache
               THEN /\ xpc' = "ret" /\ depth' = depth
                    /\ result' = [output |-> cache[xinput], err |-> ErrNil]
                    /\ tcalls' = tcalls
               ELSE xpc' = "call" /\ depth' = depth + 1]_vars
    /\ [][(Returning("CacheOutput") /\ HandlerSteps) =>
            /\ result' = result
            /\ IF result.err = ErrNil
               THEN /\ DOMAIN cache' = DOMAIN cache \cup {xinput}
                    /\ cache'[xinput] = result.output
               ELSE cache' = cache]_vars
    /\ [][\A x \in DOMAIN cache : x \in DOMAIN cache' /\ cache'[x] = cache[x]]_vars

\* a call for an input that had succeeded before has returned the cached
\* value, and the final function has not run in it
C29_Witness ==
    /\ OnlyMw("CacheOutput")
    /\ xpc = "done" /\ xinput = "good"
    /\ "good" \in DOMAIN cache
    /\ result = [output |-> "T:good", err |-> ErrNil]
    /\ tcalls = 0

Recovered == [output |-> Zero, err |-> ErrPanicRecovered(PanicValue(xinput))]

\* C28: a panic of the final function that reaches Recovery, through the
\* middlewares below it, ends there: Recovery returns the zero output and an
\* error that carries the panic value, and Execute returns that error
\* instead of panicking.
C28_RecoveryNeverReraises ==
    /\ [][(Panicking({"Recovery"}) /\ HandlerSteps) =>
            (xpc' = "ret" /\ result' = Recovered /\ frames' = Pop)]_vars
    /\ [](UsesKind(xchain, "Recovery") =>
            /\ xpc # "crashed"
            /\ (xpc = "done" /\ FinalPanics(xinput)) =>
                  (result = Recovered /\ result.err # ErrNil))

\* Execute has returned the error made of a panic that passed a Logger
\* before it reached Recovery
C28_Witness ==
    /\ xchain.middlewares = <<RecoveryMw, Logger("A")>>
    /\ xpc = "done" /\ xinput = "boom"
    /\ result = [output |-> Zero, err |-> "panic recovered: boom!"]
    /\ tcalls = 1

\* C30: an open CircuitBreaker refuses a call without calling next until
\* more than the reset timeout has passed since the last failure, and then
\* becomes half-open and lets the call through; when the call let through by
\* a half-open breaker succeeds the breaker is closed and the failure count
\* of the input is zero, and when it fails, for whatever input, the breaker
\* is open again.
C30_CircuitBreakerTrial ==
    /\ [][(/\ OnlyMw("CircuitBreaker") /\ Entering("CircuitBreaker") /\ HandlerSteps
           /\ breaker.state = "Open") =>
            IF clock - breaker.lastFailure > breaker.resetTimeout
            THEN breaker'.state = "HalfOpen" /\ xpc' = "call" /\ depth' = depth + 1
            ELSE /\ xpc' = "ret" /\ result' = [output |-> Zero, err |-> ErrOpen(xinput)]
                 /\ tcalls' = tcalls /\ breaker' = breaker]_vars
    /\ [][(/\ OnlyMw("CircuitBreaker") /\ Returning("CircuitBreaker") /\ HandlerSteps
           /\ breaker.state = "HalfOpen") =>
            IF result.err = ErrNil
            THEN breaker'.state = "Closed" /\ Failures(breaker', xinput) = 0
            ELSE breaker'.state = "Open"]_vars

NextResult == FinalAt(xinput, 0)

NoNameTwice(names) == \A i, j \in DOMAIN names : names[i] = names[j] => i = j

\* C38: on every registry, Count() is the number of names that List()
\* returns, and List() returns no name twice.
C38_CountIsLenOfList ==
    \A r \in 1..Len(regs) :
        \A names \in Registry_List(regs[r]) :
            /\ Registry_Count(regs[r]) = Len(names)
            /\ NoNameTwice(names)

\* C31: a call of Lambda.Invoke or of Invoker.Invoke with a context that is
\* cancelled already returns the context's error, and the function of the
\* Lambda is not called in it.
C31_CancelledNeverCalls ==
    /\ \A p \in Procs :
          linv[p].cancelled =>
             /\ linv[p].calls = 0
             /\ linv[p].pc = "done" => linv[p].result.Error = ErrCtx
    /\ \A p \in Procs :
          invs[p].cancelled =>
             /\ ~invs[p].called
             /\ invs[p].pc = "done" => invs[p].ret.err \in {ErrCtx, ErrNotFound(invs[p].name)}

\* C37: whatever Retries is, a call of Lambda.Invoke that has returned has
\* called the function at least once, and has returned a nil error only if a
\* call of the function returned without error.
C37_CalledAtLeastOnce ==
    \A p \in Procs :
        linv[p].pc = "done" =>
            /\ linv[p].calls >= 1
            /\ linv[p].result.Error = ErrNil => linv[p].succeeded

\* C36: with WithConcurrency called while calls of Invoke are in flight, a
\* call that is about to release its slot receives from the channel it sent
\* its token to, and that channel holds a token, so that the receive returns.
C36_ReleaseOnOwnPool ==
    \A p \in Procs :
        invs[p].pc = "release" =>
            /\ semaphore = invs[p].held
            /\ semaphore # NilChan
            /\ sems[semaphore].len > 0

(***************************************************************************)
(* More claims on the middlewares.                                         *)
(***************************************************************************)
\* C32: with Recovery outside Timeout, a panic of the final function, which
\* runs in the goroutine that Timeout starts, does not end the program:
\* Execute returns the error that Recovery makes of it.
C32_RecoveryOutsideTimeout ==
    xchain.middlewares = <<RecoveryMw, TimeoutMw>> =>
        /\ xpc # "crashed"
        /\ (xpc = "done" /\ FinalPanics(xinput) /\ tcalls = 1) => result = Recovered

Exits == Cardinality({i \in 1..Len(trace) : trace[i].ev = "exit"})

\* C40: the goroutine that Timeout starts always finds room in the channel
\* for its result, so once next has returned the goroutine ends, whether or
\* not Timeout has returned; and Timeout returns once to its caller.
C40_TimeoutPathEnds ==
    /\ [](OnlyMw("Timeout") =>
            /\ worker.pc = "select" => Len(worker.chan) < ResultChanCap
            /\ Exits <= 1
            /\ xpc \in {"ret", "done"} => Exits = 1)
    /\ (OnlyMw("Timeout") /\ worker.pc = "select") ~> (worker.pc \in {"sent", "dropped"})
    /\ (OnlyMw("Timeout") /\ xpc \in {"select", "parked"} /\ ~FinalPanics(xinput))
          ~> (xpc = "ret")

\* next has returned after Timeout had reported the timeout to a caller that
\* has returned, and the goroutine has ended
C40_Witness ==
    /\ OnlyMw("Timeout")
    /\ xpc = "done" /\ result = Timeout_Expired
    /\ worker.late /\ worker.pc \in {"sent", "dropped"}

\* the calls admitted at times in the window that starts at t
AdmittedFrom(t) ==
    Cardinality({i \in 1..Len(admitted) : t <= admitted[i] /\ admitted[i] < t + limiter.window})

\* C39: with Allow called from several goroutines at once, no window holds
\* more admitted calls than maxRequests.
C39_ConcurrentAllow ==
    \A t \in 0..MaxClock : AdmittedFrom(t) <= limiter.maxRequests

\* C34: between invocations, GetMetrics of a LambdaWithMiddleware built with
\* Metrics counts the invocations made, as successes or errors, and equals
\* the record given to Metrics.
C34_GetMetricsCounts ==
    xpc \in {"idle", "done"} =>
        /\ LambdaWithMiddleware_GetMetrics.TotalInvocations = lwm.n
        /\ LambdaWithMiddleware_GetMetrics.SuccessInvocations
              + LambdaWithMiddleware_GetMetrics.ErrorInvocations = lwm.n
        /\ LambdaWithMiddleware_GetMetrics = lwm.passed

\* C33: the wait before every attempt after the first is at least 100ms and
\* at most 5s, in int64 nanoseconds.
C33_BackoffWithin ==
    backoff.attempt >= 1 =>
        /\ ~Less64(backoff.wait, HundredMilliseconds)
        /\ ~Less64(FiveSeconds, backoff.wait)

\* C35: Batch invokes the Unit once per input, and when every invocation
\* succeeded it returns as many results as there are inputs, whatever the
\* batch size.
C35_BatchOnePerInput ==
    entry.op = "Batch" =>
        /\ Cardinality(entry.batches) = Len(entry.inputs)
        /\ (entry.pc = "returned" /\ entry.ret.err = ErrNil)
              => Len(entry.ret.results) = Len(entry.inputs)

====
